---- MODULE Spec2Model ----
(***************************************************************************)
(* Model of the debug-draw geometry container: the pool of timed entries,  *)
(* the render tick (DebugGeometryContainer::update_geometry), the physics  *)
(* tick (update_geometry_physics_start / _end), the statistics snapshot    *)
(* and the clear operation.                                                *)
(*                                                                         *)
(* The pool class itself (geometry_pool) is only called from the sources   *)
(* at hand; its operations are modelled after the written specification.   *)
(***************************************************************************)
EXTENDS Integers, Sequences, FiniteSets, TLC

\* ------------------------------------------------------------------ bounds
MaxAdds == 2      \* draw calls in one behaviour
MaxKey == 1       \* dedup keys 0..MaxKey
MaxDur == 3       \* the requested duration of a timed entry
MaxDrawn == 2     \* cap of the flatten counter kept with an entry
MaxCams == 2      \* cameras a scene holds
MaxViewports == 2 \* custom editor viewports

\* the constant delta every tick is called with
TickDelta == 2

InstanceKinds == {"SPHERE", "CUBE"}
Kinds == InstanceKinds \cup {"LINE"}
ProcessTypes == {"PROCESS", "PHYSICS_PROCESS"}
Keys == 0..MaxKey
\* the requested durations: one frame, and one that no number of ticks
\* divides evenly
Durations == {0, MaxDur}
\* the kinds the draw calls of a behaviour ask for
DrawKinds == {"SPHERE", "LINE"}
\* the tick counter kept with an entry stops at the longest lifetime in ticks
MaxAge == (MaxDur + TickDelta - 1) \div TickDelta
\* cameras are numbered from 1; 0 is the null camera pointer
Cams == 1..MaxCams

VARIABLES
    pool,               \* geometry_pool: slots in pool-slot order
    visible_objects,    \* geometry_pool: visible count per kind
    mesh,               \* multi_mesh_storage / immediate_mesh_storage
    is_frame_rendered,  \* DebugGeometryContainer::is_frame_rendered
    in_physics,         \* the engine is between physics start and physics end
    stats,              \* the snapshot returned by the operation just performed
    adds,               \* number of draw calls made so far
    last,               \* the operation just performed and its arguments
    since_clear,        \* no draw call was made since the last clear
    phys_resets,        \* physics resets since the last completed render tick
    lock_owner,         \* DebugDraw3D::datalock: the thread holding it
    lock_depth,         \* how many LOCK_GUARDs of that thread hold it
    pc,                 \* the call each thread is in
    log,                \* the pool operations of the render tick under way
    scene,              \* the viewports, cameras and culling configuration
    culling,            \* what the camera collection of the last tick gave
    handles,            \* the DebugDraw3DScopeConfig objects created so far
    scoped_configs,     \* DebugDraw3D::scoped_configs: thread -> stack
    cached_scoped_configs, \* DebugDraw3D::cached_scoped_configs
    resolved,           \* the config the last draw call resolved
    path,               \* the argument of the geometry generator
    path_lines,         \* what the geometry generator returned
    shape,              \* the arguments of a call of a shape generator
    shape_lines         \* what the shape generator returned

vars == <<pool, visible_objects, mesh, is_frame_rendered, in_physics,
          stats, adds, last, since_clear, phys_resets, lock_owner,
          lock_depth, pc, log, scene, culling, handles, scoped_configs,
          cached_scoped_configs, resolved, path, path_lines, shape,
          shape_lines>>

container == <<pool, visible_objects, mesh, is_frame_rendered, in_physics,
               stats, adds, last, since_clear, phys_resets, lock_owner,
               lock_depth, pc, log>>
cameras == <<scene, culling>>
scopes == <<handles, scoped_configs, cached_scoped_configs, resolved>>
generators == <<path, path_lines, shape, shape_lines>>

\* the main thread runs the render and physics ticks, the worker thread
\* calls the drawing interface
Threads == {"main", "worker"}
threads == <<lock_owner, lock_depth, pc, log>>

\* ------------------------------------------------------------ pool entries
\* A reclaimed slot: it sits on the free list and carries no entry.
EmptySlot ==
    [st |-> "Reclaimed", kind |-> "SPHERE", key |-> 0, proc |-> "PROCESS",
     dur |-> 0, vis |-> FALSE, one |-> FALSE,
     d0 |-> 0, age |-> 0, drawn |-> 0, seen |-> FALSE]

\* DelayedRendererInstance / DelayedRendererLine as created by a draw call.
\* d0, age, drawn and seen are history kept for the properties: the
\* requested duration, the ticks of the entry's process type since the call,
\* the render ticks that flattened it, whether an enabled render tick ran.
NewEntry(kind, key, proc, dur, one) ==
    [st |-> "Active", kind |-> kind, key |-> key, proc |-> proc,
     dur |-> dur, vis |-> TRUE, one |-> one,
     d0 |-> dur, age |-> 0, drawn |-> 0, seen |-> FALSE]

Slots(p) == 1..Len(p)
Used(p) == {i \in Slots(p) : p[i].st # "Reclaimed"}
Live(p) == {i \in Slots(p) : p[i].st = "Active"}
LiveOfKind(p, k) == {i \in Live(p) : p[i].kind = k}

\* the slots holding the keyed entry (kind, key)
Keyed(p, kind, key) ==
    {i \in Used(p) : p[i].kind = kind /\ p[i].key = key /\ ~p[i].one}

Min(S) == CHOOSE x \in S : \A y \in S : x <= y
CeilDiv(a, b) == (a + b - 1) \div b
Bump(n, cap) == IF n < cap THEN n + 1 ELSE cap

\* add_or_update that never looks the key up
AddOrUpdate_Append(p, kind, key, proc, dur, one) ==
    LET e == NewEntry(kind, key, proc, dur, one)
        free == {i \in Slots(p) : p[i].st = "Reclaimed"}
    IN  IF free # {} THEN [p EXCEPT ![Min(free)] = e] ELSE Append(p, e)

\* add_or_update that leaves the remaining lifetime of a keyed entry alone
AddOrUpdate_KeepDur(p, kind, key, proc, dur, one) ==
    LET e == NewEntry(kind, key, proc, dur, one)
        hit == Keyed(p, kind, key)
        free == {i \in Slots(p) : p[i].st = "Reclaimed"}
    IN  IF ~one /\ hit # {}
        THEN [p EXCEPT ![Min(hit)] = [e EXCEPT !.dur = p[Min(hit)].dur]]
        ELSE IF free # {}
             THEN [p EXCEPT ![Min(free)] = e]
             ELSE Append(p, e)

\* GeometryPool::add_or_update_instance / add_or_update_line
AddOrUpdate(p, kind, key, proc, dur, one) ==
    LET e == NewEntry(kind, key, proc, dur, one)
        hit == Keyed(p, kind, key)
        free == {i \in Slots(p) : p[i].st = "Reclaimed"}
    IN  IF ~one /\ hit # {}
        THEN [p EXCEPT ![Min(hit)] = e]
        ELSE IF free # {}
             THEN [p EXCEPT ![Min(free)] = e]
             ELSE Append(p, e)

\* one entry under GeometryPool::reset_counter
ResetEntry(e, delta) ==
    IF e.dur <= 0 \/ e.one
    THEN [e EXCEPT !.st = "Expired"]
    ELSE IF e.dur - delta <= 0
         THEN [e EXCEPT !.dur = e.dur - delta, !.st = "Expired"]
         ELSE [e EXCEPT !.dur = e.dur - delta]

\* GeometryPool::reset_counter(delta, process types)
ResetCounter(p, delta, procs) ==
    [i \in Slots(p) |->
        IF p[i].st = "Active" /\ p[i].proc \in procs
        THEN ResetEntry(p[i], delta)
        ELSE p[i]]

\* the pool without the reclaimed slots at its end (capacity is not modelled:
\* the free list is the reclaimed slots below the last used one)
RECURSIVE Trim(_)
Trim(p) ==
    IF p # <<>> /\ p[Len(p)].st = "Reclaimed"
    THEN Trim(SubSeq(p, 1, Len(p) - 1))
    ELSE p

\* GeometryPool::update_expiration(delta, process type)
UpdateExpiration(p, delta, proc) ==
    Trim([i \in Slots(p) |->
        IF p[i].st = "Expired" /\ p[i].proc = proc THEN EmptySlot ELSE p[i]])

\* GeometryPool::update_visibility: culled tells whether frustum data was
\* supplied, inside is the set of slots whose bounds pass the frustum and
\* distance tests of at least one camera
UpdateVisibility(p, culled, inside) ==
    [i \in Slots(p) |->
        IF p[i].st = "Reclaimed" THEN p[i]
        ELSE [p[i] EXCEPT !.vis = (~culled \/ i \in inside)]]

\* the slots of one kind a flatten writes, in pool-slot order
RECURSIVE FlatFrom(_, _, _)
FlatFrom(p, k, i) ==
    IF i > Len(p) THEN <<>>
    ELSE IF p[i].st = "Active" /\ p[i].vis /\ p[i].kind = k
         THEN <<i>> \o FlatFrom(p, k, i + 1)
         ELSE FlatFrom(p, k, i + 1)

Flatten(p, k) == FlatFrom(p, k, 1)

\* GeometryPool::fill_lines_data and GeometryPool::fill_instance_data
FillData(p) == [k \in Kinds |-> Flatten(p, k)]

\* GeometryPool::scan_visible_instances
ScanVisible(p) ==
    [k \in Kinds |-> Cardinality({i \in LiveOfKind(p, k) : p[i].vis})]

\* GeometryPool::reset_visible_objects
ResetVisible == [k \in Kinds |-> 0]

\* GeometryPool::clear_pool
ClearPool == <<>>

\* GeometryPool::update_stats
UpdateStats(p, v) ==
    [live |-> [k \in Kinds |-> Cardinality(LiveOfKind(p, k))],
     visible |-> v]

NoStats == [live |-> [k \in Kinds |-> -1], visible |-> [k \in Kinds |-> -1]]
\* the record of an operation that is no draw call; note tells whether it
\* took entries out of the pool
Op(name, note) ==
    [op |-> name, kind |-> "none", key |-> 0, dur |-> 0, note |-> note]

Reclaims(p, q) ==
    IF Cardinality(Used(q)) < Cardinality(Used(p)) THEN "reclaimed" ELSE "kept"

\* --------------------------------------------------------------- history
\* a tick of process type proc has run
Aged(p, proc) ==
    [i \in Slots(p) |->
        IF p[i].st # "Reclaimed" /\ p[i].proc = proc
        THEN [p[i] EXCEPT !.age = Bump(p[i].age, MaxAge)]
        ELSE p[i]]

\* the slots a frame's buffers hold
InBuffers(m) == UNION {{m[k][j] : j \in 1..Len(m[k])} : k \in Kinds}

\* an enabled render tick has built the buffers m from p; the history is
\* kept for one-frame entries only
Drawn(p, m) ==
    [i \in Slots(p) |->
        IF p[i].st # "Active" \/ p[i].d0 > 0 THEN p[i]
        ELSE [p[i] EXCEPT !.seen = TRUE,
                          !.drawn = IF i \in InBuffers(m)
                                    THEN Bump(p[i].drawn, MaxDrawn)
                                    ELSE p[i].drawn]]

\* ------------------------------------------------------------------ init
\* what the renderer draws of each kind: the visible prefix of the kind's
\* multimesh buffer, the surface of the line mesh
EmptyMesh == [k \in Kinds |-> <<>>]

\* DebugDraw3DScopeConfig::Data::Data(): plane_size INFINITY is PlaneInf
PlaneInf == 9
DefaultData ==
    [thickness |-> 0, center_brightness |-> 0, hd_sphere |-> FALSE,
     plane_size |-> PlaneInf]
NoResolved == [thread |-> "none", data |-> DefaultData, from |-> 0]

\* no scope was created and no draw call has resolved a config
InitScopes ==
    /\ handles = <<>>
    /\ scoped_configs = [t \in Threads |-> <<>>]
    /\ cached_scoped_configs = [t \in Threads |-> -1]
    /\ resolved = NoResolved

\* a scene with no camera, no viewport and culling off
\* and the previous camera values DebugDraw3D starts with: position 0 is
\* the zero vector, far plane 0 is the 1000 of the reset
NoCulling ==
    [state |-> "none", cams |-> <<>>, frustums |-> <<>>,
     previous_camera_position |-> 0, previous_camera_far_plane |-> 0]
NoScene ==
    [vp_cam |-> 0, force |-> FALSE, custom |-> [set |-> FALSE, cam |-> 0],
     editor |-> <<>>, use_frustum_culling |-> FALSE, distance |-> FALSE,
     view |-> [c \in Cams |-> {}], near |-> [c \in Cams |-> {}],
     planes |-> [c \in Cams |-> 6]]

InitContainer ==
    /\ pool = <<>>
    /\ visible_objects = [k \in Kinds |-> 0]
    /\ mesh = EmptyMesh
    /\ is_frame_rendered = FALSE
    /\ in_physics = FALSE
    /\ stats = NoStats
    /\ adds = 0
    /\ last = Op("none", "kept")
    /\ since_clear = FALSE
    /\ phys_resets = 0
    /\ lock_owner = "none"
    /\ lock_depth = 0
    /\ pc = [t \in Threads |-> "idle"]
    /\ log = <<>>

\* no geometry generator was called
NoLines == [done |-> FALSE, points |-> <<>>, error |-> FALSE]
NoShape == [gen |-> "none"]
NoShapeLines ==
    [done |-> FALSE, points |-> <<>>, writes |-> <<>>, error |-> FALSE,
     crashed |-> FALSE]
InitGenerators ==
    /\ path = <<>>
    /\ path_lines = NoLines
    /\ shape = NoShape
    /\ shape_lines = NoShapeLines

Init ==
    /\ InitContainer
    /\ scene = NoScene
    /\ culling = NoCulling
    /\ InitScopes
    /\ InitGenerators

\* ---------------------------------------------------------------- actions
\* the process type a draw call is tagged with
CurrentProcess == IF in_physics THEN "PHYSICS_PROCESS" ELSE "PROCESS"

\* DebugDraw3D::scoped_config_for_current_thread: the guard id of the config
\* a draw call of thread t uses: the cached one, else the innermost scope of
\* the thread's stack, else the default config (guard id 0). In the cache
\* -1 stands for no entry.
scoped_config_for_current_thread(t) ==
    IF cached_scoped_configs[t] # -1 THEN cached_scoped_configs[t]
    ELSE IF scoped_configs[t] # <<>>
         THEN scoped_configs[t][Len(scoped_configs[t])]
         ELSE 0

\* the values behind a guard id; the data is shared with the handle
DataOf(id) == IF id = 0 THEN DefaultData ELSE handles[id].data

\* a draw call of thread t resolves its config and leaves it in the cache
ResolveDraw(t) ==
    LET id == scoped_config_for_current_thread(t)
    IN  /\ cached_scoped_configs' = [cached_scoped_configs EXCEPT ![t] = id]
        /\ resolved' = [thread |-> t, data |-> DataOf(id), from |-> id]
        /\ UNCHANGED <<handles, scoped_configs>>

\* a draw call of thread t: add_or_update_instance / add_or_update_line
DrawBy(t, kind, key, dur) ==
    /\ adds < MaxAdds
    /\ pool' = AddOrUpdate(pool, kind, key, CurrentProcess, dur, FALSE)
    /\ adds' = adds + 1
    /\ last' = [op |-> "draw", kind |-> kind, key |-> key, dur |-> dur,
                note |-> IF Keyed(pool, kind, key) = {} THEN "new"
                         ELSE IF \E i \in Keyed(pool, kind, key) :
                                     pool[i].st = "Active"
                              THEN "refreshed"
                              ELSE "revived"]
    /\ since_clear' = FALSE
    /\ stats' = NoStats
    /\ UNCHANGED <<visible_objects, mesh, is_frame_rendered, in_physics,
                   phys_resets>>
    /\ ResolveDraw(t)
    /\ UNCHANGED <<threads, cameras, generators>>

\* the draw calls of the thread that runs the ticks
DrawCall(kind, key, dur) == DrawBy("main", kind, key, dur)

Draw == \E kind \in DrawKinds, key \in Keys, dur \in Durations :
            DrawCall(kind, key, dur)

\* bounds entries added without the is_used_one_time flag
RECURSIVE InjectBounds_Keyed(_, _, _)
InjectBounds_Keyed(p, src, kind) ==
    IF src = {} THEN p
    ELSE InjectBounds_Keyed(AddOrUpdate(p, kind, 0, "PROCESS", 0, FALSE),
                            src \ {Min(src)}, kind)

\* one-shot bounds entries of kind `kind`, one for each slot of `src`
RECURSIVE InjectBounds(_, _, _)
InjectBounds(p, src, kind) ==
    IF src = {} THEN p
    ELSE InjectBounds(AddOrUpdate(p, kind, 0, "PROCESS", 0, TRUE),
                      src \ {Min(src)}, kind)

\* the debug bounds without the test of is_visible and is_expired
DebugBounds_AllEntries(p) ==
    LET inst == {i \in Used(p) : p[i].kind \in InstanceKinds}
        p1 == InjectBounds(p, inst, "SPHERE")
        lines == {i \in Used(p1) : p1[i].kind = "LINE"}
    IN  InjectBounds(p1, lines, "CUBE")

\* update_geometry, "Debug bounds of instances and lines"
DebugBounds(p) ==
    LET inst == {i \in Used(p) : p[i].kind \in InstanceKinds
                                 /\ p[i].vis /\ p[i].st # "Expired"}
        p1 == InjectBounds(p, inst, "SPHERE")
        lines == {i \in Used(p1) : p1[i].kind = "LINE"
                                   /\ p1[i].vis /\ p1[i].st # "Expired"}
    IN  InjectBounds(p1, lines, "CUBE")

\* the disabled branch without the loop over multi_mesh_storage
RenderDisabled_KeepsInstances ==
    /\ mesh' = [mesh EXCEPT !["LINE"] = <<>>]
    /\ pool' = Aged(ResetCounter(pool, TickDelta, ProcessTypes), "PROCESS")
    /\ visible_objects' = ResetVisible
    /\ last' = Op("disabled", "kept")
    /\ UNCHANGED <<is_frame_rendered, phys_resets>>

\* update_geometry, the branch taken when debug drawing is disabled
RenderDisabled ==
    /\ mesh' = EmptyMesh
    /\ pool' = Aged(ResetCounter(pool, TickDelta, ProcessTypes), "PROCESS")
    /\ visible_objects' = ResetVisible
    /\ last' = Op("disabled", "kept")
    /\ UNCHANGED <<is_frame_rendered, phys_resets>>

\* the end of a frame with the reset left out
ExpireAndReset_NoReset(p) == UpdateExpiration(p, TickDelta, "PROCESS")

\* the end of a frame that does not hand its delta on
ExpireAndReset_NoDelta(p) ==
    ResetCounter(UpdateExpiration(p, 0, "PROCESS"), 0, {"PROCESS"})

\* the end of a frame that resets the counters of every process type
ExpireAndReset_AllTypes(p) ==
    ResetCounter(UpdateExpiration(p, TickDelta, "PROCESS"), TickDelta,
                 ProcessTypes)

\* update_geometry, the end of a frame: update_expiration and reset_counter
\* for the render process
ExpireAndReset(p) ==
    ResetCounter(UpdateExpiration(p, TickDelta, "PROCESS"), TickDelta,
                 {"PROCESS"})

\* the full frame with scan_visible_instances run before update_visibility
RenderFrame_ScanFirst(culled, inside, bounds) ==
    LET seen == UpdateVisibility(pool, culled, inside)
        shown == IF bounds THEN DebugBounds(seen) ELSE seen
        built == FillData(shown)
    IN  /\ mesh' = built
        /\ visible_objects' = ScanVisible(pool)
        /\ pool' = Aged(ExpireAndReset(Drawn(shown, built)), "PROCESS")
        /\ is_frame_rendered' = TRUE
        /\ phys_resets' = 0
        /\ last' = Op("frame", Reclaims(shown, pool'))

\* update_geometry, the full frame
RenderFrame(culled, inside, bounds) ==
    LET seen == UpdateVisibility(pool, culled, inside)
        shown == IF bounds THEN DebugBounds(seen) ELSE seen
        built == FillData(shown)
    IN  /\ mesh' = built
        /\ visible_objects' = ScanVisible(shown)
        /\ pool' = Aged(ExpireAndReset(Drawn(shown, built)), "PROCESS")
        /\ is_frame_rendered' = TRUE
        /\ phys_resets' = 0
        /\ last' = Op("frame", Reclaims(shown, pool'))

\* update_geometry that clears the line mesh before it tests the freeze
update_geometry_ClearsFirst(culled, inside, c) ==
    /\ ~in_physics
    /\ IF c.freeze
       THEN /\ last' = Op("frozen", "kept")
            /\ mesh' = [mesh EXCEPT !["LINE"] = <<>>]
            /\ UNCHANGED <<pool, visible_objects, is_frame_rendered,
                           phys_resets>>
       ELSE IF ~c.debug_enabled
            THEN RenderDisabled
            ELSE RenderFrame(culled, inside, c.bounds)
    /\ stats' = NoStats
    /\ UNCHANGED <<in_physics, adds, since_clear>>
    /\ UNCHANGED <<threads, cameras, scopes, generators>>

\* update_geometry that marks the frame rendered before it tests the freeze
update_geometry_MarksFirst(culled, inside, c) ==
    /\ ~in_physics
    /\ IF c.freeze
       THEN /\ last' = Op("frozen", "kept")
            /\ is_frame_rendered' = TRUE
            /\ UNCHANGED <<pool, visible_objects, mesh, phys_resets>>
       ELSE IF ~c.debug_enabled
            THEN RenderDisabled
            ELSE RenderFrame(culled, inside, c.bounds)
    /\ stats' = NoStats
    /\ UNCHANGED <<in_physics, adds, since_clear>>
    /\ UNCHANGED <<threads, cameras, scopes, generators>>

\* DebugGeometryContainer::update_geometry; c is the owner's configuration
update_geometry(culled, inside, c) ==
    /\ ~in_physics
    /\ IF c.freeze
       THEN /\ last' = Op("frozen", "kept")
            /\ UNCHANGED <<pool, visible_objects, mesh, is_frame_rendered,
                           phys_resets>>
       ELSE IF ~c.debug_enabled
            THEN RenderDisabled
            ELSE RenderFrame(culled, inside, c.bounds)
    /\ stats' = NoStats
    /\ UNCHANGED <<in_physics, adds, since_clear>>
    /\ UNCHANGED <<threads, cameras, scopes, generators>>

Configs == [freeze : BOOLEAN, debug_enabled : BOOLEAN, bounds : BOOLEAN]

\* a render tick under one of the configurations cs; the frustum data and
\* the outcome of the bounds tests are inputs of the frames that cull
RenderTickOf(cs) ==
    \E c \in cs :
        IF c.freeze \/ ~c.debug_enabled
        THEN update_geometry(FALSE, {}, c)
        ELSE \/ update_geometry(FALSE, {}, c)
             \/ \E inside \in SUBSET Live(pool) : update_geometry(TRUE, inside, c)

\* the render ticks with the bounds overlay off
RenderTick == RenderTickOf({c \in Configs : ~c.bounds})

\* a physics start that does not test is_frame_rendered
update_geometry_physics_start_Unguarded ==
    /\ ~in_physics
    /\ in_physics' = TRUE
    /\ pool' = Aged(ResetCounter(pool, TickDelta, {"PHYSICS_PROCESS"}),
                    "PHYSICS_PROCESS")
    /\ is_frame_rendered' = FALSE
    /\ phys_resets' = Bump(phys_resets, 2)
    /\ last' = Op("physics_start", "kept")
    /\ stats' = NoStats
    /\ UNCHANGED <<visible_objects, mesh, adds, since_clear>>
    /\ UNCHANGED <<threads, cameras, scopes, generators>>

\* DebugGeometryContainer::update_geometry_physics_start
update_geometry_physics_start ==
    /\ ~in_physics
    /\ in_physics' = TRUE
    /\ IF is_frame_rendered
       THEN /\ pool' = Aged(ResetCounter(pool, TickDelta, {"PHYSICS_PROCESS"}),
                            "PHYSICS_PROCESS")
            /\ is_frame_rendered' = FALSE
            /\ phys_resets' = Bump(phys_resets, 2)
       ELSE /\ pool' = Aged(pool, "PHYSICS_PROCESS")
            /\ UNCHANGED <<is_frame_rendered, phys_resets>>
    /\ last' = Op("physics_start", "kept")
    /\ stats' = NoStats
    /\ UNCHANGED <<visible_objects, mesh, adds, since_clear>>
    /\ UNCHANGED <<threads, cameras, scopes, generators>>

\* a physics end that does not sweep
update_geometry_physics_end_NoSweep ==
    /\ in_physics
    /\ in_physics' = FALSE
    /\ last' = Op("physics_end", "kept")
    /\ stats' = NoStats
    /\ UNCHANGED <<pool, visible_objects, mesh, is_frame_rendered, adds,
                   since_clear, phys_resets>>
    /\ UNCHANGED <<threads, cameras, scopes, generators>>

\* DebugGeometryContainer::update_geometry_physics_end
update_geometry_physics_end ==
    /\ in_physics
    /\ in_physics' = FALSE
    /\ pool' = UpdateExpiration(pool, TickDelta, "PHYSICS_PROCESS")
    /\ last' = Op("physics_end", Reclaims(pool, pool'))
    /\ stats' = NoStats
    /\ UNCHANGED <<visible_objects, mesh, is_frame_rendered, adds,
                   since_clear, phys_resets>>
    /\ UNCHANGED <<threads, cameras, scopes, generators>>

\* DebugGeometryContainer::get_render_stats
get_render_stats ==
    /\ stats' = UpdateStats(pool, visible_objects)
    /\ last' = Op("stats", "kept")
    /\ UNCHANGED <<pool, visible_objects, mesh, is_frame_rendered,
                   in_physics, adds, since_clear, phys_resets>>
    /\ UNCHANGED <<threads, cameras, scopes, generators>>

\* a clear that empties the meshes and leaves the pool
clear_3d_objects_KeepPool ==
    /\ mesh' = EmptyMesh
    /\ since_clear' = TRUE
    /\ last' = Op("clear", "kept")
    /\ stats' = NoStats
    /\ UNCHANGED <<pool, visible_objects, is_frame_rendered, in_physics,
                   adds, phys_resets>>
    /\ UNCHANGED <<threads, cameras, scopes, generators>>

\* DebugGeometryContainer::clear_3d_objects
clear_3d_objects ==
    /\ mesh' = EmptyMesh
    /\ pool' = ClearPool
    /\ visible_objects' = ResetVisible
    /\ since_clear' = TRUE
    /\ last' = Op("clear", Reclaims(pool, ClearPool))
    /\ stats' = NoStats
    /\ UNCHANGED <<is_frame_rendered, in_physics, adds, phys_resets>>
    /\ UNCHANGED <<threads, cameras, scopes, generators>>

Next ==
    \/ Draw
    \/ RenderTick
    \/ update_geometry_physics_start
    \/ update_geometry_physics_end
    \/ get_render_stats
    \/ clear_3d_objects

Spec == Init /\ [][Next]_vars

\* the render ticks with the bounds overlay on or off
BoundsTick == RenderTickOf(Configs)

\* the behaviours in which the visible-instance-bounds overlay may be on
NextBounds ==
    \/ Draw
    \/ BoundsTick
    \/ clear_3d_objects

SpecBounds == Init /\ [][NextBounds]_vars

\* the behaviours in which debug drawing stays enabled and freeze stays off,
\* and in which the main loop keeps iterating: a frame is built in every
\* iteration, and physics ticks keep being started and are always finished
RenderEnabled ==
    RenderTickOf({c \in Configs : ~c.bounds /\ ~c.freeze /\ c.debug_enabled})

NextLive ==
    \/ Draw
    \/ RenderEnabled
    \/ update_geometry_physics_start
    \/ update_geometry_physics_end
    \/ get_render_stats
    \/ clear_3d_objects

SpecLive ==
    /\ Init
    /\ [][NextLive]_vars
    /\ []<><<RenderEnabled>>_vars
    /\ SF_vars(update_geometry_physics_start)
    /\ WF_vars(update_geometry_physics_end)

\* ------------------------------------------------------- threads and lock
\* The same operations as the calls of two threads: a call that takes the
\* data lock (LOCK_GUARD) enters when the lock is free and releases it on
\* return; the steps of a render tick are the pool operations in the order
\* update_geometry makes them.
RenderOrder ==
    <<"update_visibility", "fill_lines_data", "fill_instance_data",
      "scan_visible_instances", "update_expiration", "reset_counter">>
DisabledOrder == <<"reset_counter", "reset_visible_objects">>
RenderSteps == {RenderOrder[j] : j \in 1..Len(RenderOrder)}
WorkerCalls == {"draw", "get_render_stats", "clear_3d_objects"}

Goto(t, where) == pc' = [pc EXCEPT ![t] = where]

\* std::recursive_mutex::lock as a plain mutex would make it: the owner
\* itself has to wait as well
Lock_NonRecursive(t) ==
    /\ lock_owner = "none"
    /\ lock_owner' = t
    /\ lock_depth' = lock_depth + 1

\* LOCK_GUARD(datalock) on the std::recursive_mutex: the lock is free or
\* held by the calling thread itself
Lock(t) ==
    /\ lock_owner \in {"none", t}
    /\ lock_owner' = t
    /\ lock_depth' = lock_depth + 1

\* the end of a LOCK_GUARD's scope: the lock is free when the thread's
\* outermost guard ends
Unlock(t) ==
    /\ lock_depth' = lock_depth - 1
    /\ lock_owner' = IF lock_depth = 1 THEN "none" ELSE lock_owner

Release(t) == Unlock(t) /\ Goto(t, "idle")

\* what a pool operation made without the lock leaves behind when the other
\* thread is inside a pool operation of its own: the two race, and either
\* the operation's effect q or the pool p as it was is what remains
Unlocked(t, p, q) ==
    IF \E u \in Threads \ {t} : pc[u] # "idle" THEN {p, q} ELSE {q}

\* update_geometry entered without taking the lock
update_geometry_nolock(c) ==
    /\ pc["main"] = "idle"
    /\ log' = <<>>
    /\ IF c.freeze
       THEN Goto("main", "frozen") /\ UNCHANGED mesh
       ELSE /\ mesh' = [mesh EXCEPT !["LINE"] = <<>>]
            /\ Goto("main", IF c.debug_enabled THEN RenderOrder[1]
                            ELSE "disabled")
    /\ stats' = NoStats
    /\ UNCHANGED <<pool, visible_objects, is_frame_rendered, in_physics,
                   adds, last, since_clear, phys_resets, lock_owner,
                   lock_depth>>
    /\ UNCHANGED <<cameras, scopes, generators>>

\* update_geometry: LOCK_GUARD, the freeze test, clear_surfaces, the
\* debug-enabled test
update_geometry_enter(at, c) ==
    /\ pc["main"] = at
    /\ Lock("main")
    /\ log' = <<>>
    /\ IF c.freeze
       THEN Goto("main", "frozen") /\ UNCHANGED mesh
       ELSE /\ mesh' = [mesh EXCEPT !["LINE"] = <<>>]
            /\ Goto("main", IF c.debug_enabled THEN RenderOrder[1]
                            ELSE "disabled")
    /\ stats' = NoStats
    /\ UNCHANGED <<pool, visible_objects, is_frame_rendered, in_physics,
                   adds, last, since_clear, phys_resets>>
    /\ UNCHANGED <<cameras, scopes, generators>>

update_geometry_lock(c) == update_geometry_enter("idle", c)

RenderLock == \E c \in {c \in Configs : ~c.bounds} : update_geometry_lock(c)

update_geometry_frozen ==
    /\ pc["main"] = "frozen"
    /\ Release("main")
    /\ stats' = NoStats
    /\ UNCHANGED <<pool, visible_objects, mesh, is_frame_rendered,
                   in_physics, adds, last, since_clear, phys_resets,
                   log>>
    /\ UNCHANGED <<cameras, scopes, generators>>

update_geometry_disabled ==
    /\ pc["main"] = "disabled"
    /\ RenderDisabled
    /\ log' = DisabledOrder
    /\ Release("main")
    /\ stats' = NoStats
    /\ UNCHANGED <<in_physics, adds, since_clear>>
    /\ UNCHANGED <<cameras, scopes, generators>>

\* one pool operation of the frame: the step the main thread is at
AtStep(name) ==
    /\ pc["main"] = name
    /\ log' = Append(log, name)

step_update_visibility ==
    /\ AtStep("update_visibility")
    /\ \E culled \in BOOLEAN :
         \E inside \in IF culled THEN SUBSET Live(pool) ELSE {{}} :
            pool' = UpdateVisibility(pool, culled, inside)
    /\ Goto("main", "fill_lines_data")
    /\ stats' = NoStats
    /\ UNCHANGED <<visible_objects, mesh, is_frame_rendered, in_physics,
                   adds, last, since_clear, phys_resets, lock_owner,
                   lock_depth>>
    /\ UNCHANGED <<cameras, scopes, generators>>

step_fill_lines_data ==
    /\ AtStep("fill_lines_data")
    /\ mesh' = [mesh EXCEPT !["LINE"] = Flatten(pool, "LINE")]
    /\ Goto("main", "fill_instance_data")
    /\ stats' = NoStats
    /\ UNCHANGED <<pool, visible_objects, is_frame_rendered, in_physics,
                   adds, last, since_clear, phys_resets, lock_owner,
                   lock_depth>>
    /\ UNCHANGED <<cameras, scopes, generators>>

step_fill_instance_data ==
    /\ AtStep("fill_instance_data")
    /\ mesh' = [k \in Kinds |-> IF k \in InstanceKinds THEN Flatten(pool, k)
                                ELSE mesh[k]]
    /\ Goto("main", "scan_visible_instances")
    /\ stats' = NoStats
    /\ UNCHANGED <<pool, visible_objects, is_frame_rendered, in_physics,
                   adds, last, since_clear, phys_resets, lock_owner,
                   lock_depth>>
    /\ UNCHANGED <<cameras, scopes, generators>>

step_scan_visible_instances ==
    /\ AtStep("scan_visible_instances")
    /\ visible_objects' = ScanVisible(pool)
    /\ Goto("main", "update_expiration")
    /\ stats' = NoStats
    /\ UNCHANGED <<pool, mesh, is_frame_rendered, in_physics,
                   adds, last, since_clear, phys_resets, lock_owner,
                   lock_depth>>
    /\ UNCHANGED <<cameras, scopes, generators>>

step_update_expiration ==
    /\ AtStep("update_expiration")
    /\ pool' = UpdateExpiration(pool, TickDelta, "PROCESS")
    /\ Goto("main", "reset_counter")
    /\ stats' = NoStats
    /\ UNCHANGED <<visible_objects, mesh, is_frame_rendered, in_physics,
                   adds, last, since_clear, phys_resets, lock_owner,
                   lock_depth>>
    /\ UNCHANGED <<cameras, scopes, generators>>

step_reset_counter ==
    /\ AtStep("reset_counter")
    /\ pool' = ResetCounter(pool, TickDelta, {"PROCESS"})
    /\ is_frame_rendered' = TRUE
    /\ Release("main")
    /\ stats' = NoStats
    /\ UNCHANGED <<visible_objects, mesh, in_physics,
                   adds, last, since_clear, phys_resets>>
    /\ UNCHANGED <<cameras, scopes, generators>>

\* update_geometry_physics_start: no LOCK_GUARD
physics_start_call ==
    /\ pc["main"] = "idle"
    /\ in_physics' = TRUE
    /\ Goto("main", "physics_start")
    /\ stats' = NoStats
    /\ UNCHANGED <<pool, visible_objects, mesh, is_frame_rendered, adds,
                   last, since_clear, phys_resets, lock_owner, lock_depth, log>>
    /\ UNCHANGED <<cameras, scopes, generators>>

physics_start_return ==
    /\ pc["main"] = "physics_start"
    /\ IF is_frame_rendered
       THEN /\ pool' \in Unlocked("main", pool,
                  ResetCounter(pool, TickDelta, {"PHYSICS_PROCESS"}))
            /\ is_frame_rendered' = FALSE
       ELSE UNCHANGED <<pool, is_frame_rendered>>
    /\ Goto("main", "physics_body")
    /\ stats' = NoStats
    /\ UNCHANGED <<visible_objects, mesh, in_physics, adds, last,
                   since_clear, phys_resets, lock_owner, lock_depth, log>>
    /\ UNCHANGED <<cameras, scopes, generators>>

\* update_geometry_physics_end: no LOCK_GUARD
physics_end_call ==
    /\ pc["main"] = "physics_body"
    /\ Goto("main", "physics_end")
    /\ stats' = NoStats
    /\ UNCHANGED <<pool, visible_objects, mesh, is_frame_rendered,
                   in_physics, adds, last, since_clear, phys_resets,
                   lock_owner, lock_depth, log>>
    /\ UNCHANGED <<cameras, scopes, generators>>

physics_end_return ==
    /\ pc["main"] = "physics_end"
    /\ pool' \in Unlocked("main", pool,
                          UpdateExpiration(pool, TickDelta, "PHYSICS_PROCESS"))
    /\ in_physics' = FALSE
    /\ Goto("main", "idle")
    /\ stats' = NoStats
    /\ UNCHANGED <<visible_objects, mesh, is_frame_rendered, adds,
                   last, since_clear, phys_resets, lock_owner, lock_depth, log>>
    /\ UNCHANGED <<cameras, scopes, generators>>

\* a call of the worker thread into a function that takes the lock
worker_enter(at, f) ==
    /\ pc["worker"] = at
    /\ f = "draw" => adds < MaxAdds
    /\ Lock("worker")
    /\ Goto("worker", f)
    /\ stats' = NoStats
    /\ UNCHANGED <<pool, visible_objects, mesh, is_frame_rendered,
                   in_physics, adds, last, since_clear, phys_resets, log>>
    /\ UNCHANGED <<cameras, scopes, generators>>

worker_call(f) == worker_enter("idle", f)

WorkerCall == \E f \in WorkerCalls : worker_call(f)

draw_return ==
    /\ pc["worker"] = "draw"
    /\ \E kind \in DrawKinds, key \in Keys, dur \in Durations :
          pool' \in Unlocked("worker", pool,
              AddOrUpdate(pool, kind, key, CurrentProcess, dur, FALSE))
    /\ adds' = adds + 1
    /\ Release("worker")
    /\ stats' = NoStats
    /\ UNCHANGED <<visible_objects, mesh, is_frame_rendered, in_physics,
                   last, since_clear, phys_resets, log>>
    /\ ResolveDraw("worker")
    /\ UNCHANGED <<cameras, generators>>

get_render_stats_return ==
    /\ pc["worker"] = "get_render_stats"
    /\ stats' = UpdateStats(pool, visible_objects)
    /\ Release("worker")
    /\ UNCHANGED <<pool, visible_objects, mesh, is_frame_rendered,
                   in_physics, adds, last, since_clear, phys_resets, log>>
    /\ UNCHANGED <<cameras, scopes, generators>>

clear_3d_objects_return ==
    /\ pc["worker"] = "clear_3d_objects"
    /\ mesh' = EmptyMesh
    /\ pool' = ClearPool
    /\ visible_objects' = ResetVisible
    /\ Release("worker")
    /\ stats' = NoStats
    /\ UNCHANGED <<is_frame_rendered, in_physics, adds, last,
                   since_clear, phys_resets, log>>
    /\ UNCHANGED <<cameras, scopes, generators>>

NextMT ==
    \/ RenderLock
    \/ update_geometry_frozen
    \/ update_geometry_disabled
    \/ step_update_visibility
    \/ step_fill_lines_data
    \/ step_fill_instance_data
    \/ step_scan_visible_instances
    \/ step_update_expiration
    \/ step_reset_counter
    \/ physics_start_call
    \/ physics_start_return
    \/ physics_end_call
    \/ physics_end_return
    \/ WorkerCall
    \/ draw_return
    \/ get_render_stats_return
    \/ clear_3d_objects_return

SpecMT == Init /\ [][NextMT]_vars

\* ------------------------------------------------------ waiting for the lock
\* The same calls with the wait for the lock made visible: a call first
\* requests the lock and obtains it in a later step, when the mutex lets it;
\* update_geometry calls set_render_layer_mask, which takes the lock again,
\* when the configured render layers changed.
MaxLockDraws == 1
WaitingFor ==
    [update_geometry |-> "wait_update_geometry",
     set_render_layer_mask |-> "wait_set_render_layer_mask",
     draw |-> "wait_draw",
     get_render_stats |-> "wait_get_render_stats",
     clear_3d_objects |-> "wait_clear_3d_objects"]
LockCalls == DOMAIN WaitingFor
Waiting(t) == \E f \in LockCalls : pc[t] = WaitingFor[f]

\* a thread reaches the LOCK_GUARD of a call
lock_request(t, f) ==
    /\ pc[t] = "idle"
    /\ f = "draw" => adds < MaxLockDraws
    /\ Goto(t, WaitingFor[f])
    /\ stats' = NoStats
    /\ UNCHANGED <<pool, visible_objects, mesh, is_frame_rendered,
                   in_physics, adds, last, since_clear, phys_resets,
                   lock_owner, lock_depth, log>>
    /\ UNCHANGED <<cameras, scopes, generators>>

update_geometry_request == lock_request("main", "update_geometry")
worker_request == \E f \in WorkerCalls : lock_request("worker", f)

update_geometry_acquire ==
    \E c \in {c \in Configs : ~c.bounds} :
        update_geometry_enter(WaitingFor["update_geometry"], c)
worker_acquire == \E f \in WorkerCalls : worker_enter(WaitingFor[f], f)

\* update_geometry: render_layers differs from the configured layers
set_render_layer_mask_call ==
    /\ pc["main"] = RenderOrder[1]
    /\ lock_owner = "main"
    /\ log = <<>>
    /\ log' = <<"set_render_layer_mask">>
    /\ Goto("main", WaitingFor["set_render_layer_mask"])
    /\ stats' = NoStats
    /\ UNCHANGED <<pool, visible_objects, mesh, is_frame_rendered,
                   in_physics, adds, last, since_clear, phys_resets,
                   lock_owner, lock_depth>>
    /\ UNCHANGED <<cameras, scopes, generators>>

\* set_render_layer_mask: LOCK_GUARD
set_render_layer_mask_lock ==
    /\ pc["main"] = WaitingFor["set_render_layer_mask"]
    /\ Lock("main")
    /\ Goto("main", "set_render_layer_mask")
    /\ stats' = NoStats
    /\ UNCHANGED <<pool, visible_objects, mesh, is_frame_rendered,
                   in_physics, adds, last, since_clear, phys_resets, log>>
    /\ UNCHANGED <<cameras, scopes, generators>>

\* set_render_layer_mask: the layers are set and the guard's scope ends,
\* back in update_geometry
set_render_layer_mask_return ==
    /\ pc["main"] = "set_render_layer_mask"
    /\ Unlock("main")
    /\ Goto("main", RenderOrder[1])
    /\ stats' = NoStats
    /\ UNCHANGED <<pool, visible_objects, mesh, is_frame_rendered,
                   in_physics, adds, last, since_clear, phys_resets, log>>
    /\ UNCHANGED <<cameras, scopes, generators>>

\* the steps a thread makes once it is in a call
MainRuns ==
    \/ update_geometry_acquire
    \/ update_geometry_frozen
    \/ update_geometry_disabled
    \/ set_render_layer_mask_call
    \/ set_render_layer_mask_lock
    \/ set_render_layer_mask_return
    \/ step_update_visibility
    \/ step_fill_lines_data
    \/ step_fill_instance_data
    \/ step_scan_visible_instances
    \/ step_update_expiration
    \/ step_reset_counter
    \/ physics_start_return
    \/ physics_end_call
    \/ physics_end_return

WorkerRuns ==
    \/ worker_acquire
    \/ draw_return
    \/ get_render_stats_return
    \/ clear_3d_objects_return

NextLock ==
    \/ update_geometry_request
    \/ physics_start_call
    \/ worker_request
    \/ MainRuns
    \/ WorkerRuns

\* a thread that can make a step makes one; the mutex promises no order
\* among the threads waiting for it
SpecLock ==
    /\ Init
    /\ [][NextLock]_vars
    /\ WF_vars(MainRuns)
    /\ WF_vars(WorkerRuns)

\* ------------------------------------------------------ cameras, culling
\* the entries a scene's cameras look at: the slots of the pool
Objs == 1..(MaxKey + 1)

\* a SubViewport of custom_editor_viewports: its update mode is
\* UPDATE_ALWAYS or not, its camera is one of the cameras or null
Viewports == [always : BOOLEAN, cam : 0..MaxCams]
SeqsUpTo(S, n) == UNION {[1..k -> S] : k \in 0..n}

\* view[c] are the entries whose bounds meet the frustum of camera c,
\* near[c] the entries within the culling distance of its position;
\* distance tells whether distance culling is on; planes[c] is the size of
\* the array get_frustum returns for camera c: six planes, or none for the
\* first camera when it is not inside the world
Scenes ==
    [vp_cam : {0, 1},
     force : BOOLEAN,
     custom : {[set |-> FALSE, cam |-> 0]}
                \cup [set : {TRUE}, cam : {0, MaxCams}],
     editor : SeqsUpTo(Viewports, MaxViewports),
     use_frustum_culling : BOOLEAN,
     distance : BOOLEAN,
     view : [Cams -> SUBSET Objs],
     near : [Cams -> {{}, {1}, Objs}],
     planes : {[c \in Cams |-> 6], [c \in Cams |-> IF c = 1 THEN 0 ELSE 6]}]

Crashed == [crashed |-> TRUE, cams |-> <<>>]
CrashedTick == [crashed |-> TRUE, cams |-> <<>>, far |-> 0]

\* update_geometry, the loop over editor_viewports: a viewport without a
\* camera makes the loop call through a null pointer, which ends the
\* process or goes on with whatever camera data the call reads
RECURSIVE EditorCameras(_)
EditorCameras(ed) ==
    IF ed = <<>> THEN {[crashed |-> FALSE, cams |-> <<>>]}
    ELSE LET h == Head(ed)
             rest == EditorCameras(Tail(ed))
             After(c) == {IF r.crashed THEN Crashed
                          ELSE [r EXCEPT !.cams = <<c>> \o r.cams] : r \in rest}
         IN  IF ~h.always THEN rest
             ELSE IF h.cam # 0 THEN After(h.cam)
             ELSE {Crashed} \cup UNION {After(g) : g \in Cams}

\* update_geometry, "Collect frustums and camera positions": the outcomes
\* of the camera selection. far is the camera whose get_far() is stored as
\* previous_camera_far_plane, 0 when the 1000 of the reset stays; the
\* editor-viewport branch reads it from the camera of editor_viewports[0],
\* and reads through a null pointer when that viewport has no camera
CollectCameras(s) ==
    IF (s.force \/ (s.editor = <<>> /\ ~s.custom.set)) /\ s.vp_cam # 0
    THEN {[crashed |-> FALSE, cams |-> <<s.vp_cam>>, far |-> s.vp_cam]}
    ELSE IF s.custom.set /\ s.custom.cam # 0
    THEN {[crashed |-> FALSE, cams |-> <<s.custom.cam>>,
           far |-> s.custom.cam]}
    ELSE IF Len(s.editor) > 0
    THEN LET looped == EditorCameras(s.editor)
             fars == IF s.editor[1].cam # 0 THEN {s.editor[1].cam}
                     ELSE 0..MaxCams
         IN  {[crashed |-> FALSE, cams |-> r.cams, far |-> f] :
                 r \in {x \in looped : ~x.crashed}, f \in fars}
              \cup (IF s.editor[1].cam = 0 \/ \E x \in looped : x.crashed
                    THEN {CrashedTick} ELSE {})
    ELSE {[crashed |-> FALSE, cams |-> <<>>, far |-> 0]}

\* the frustum of each camera of cams whose array has one of the sizes
FrustumsOf(s, cams, sizes) ==
    LET kept == SelectSeq(cams, LAMBDA c : s.planes[c] \in sizes)
    IN  [j \in 1..Len(kept) |->
            [cam |-> kept[j], planes |-> s.planes[kept[j]]]]

\* frustum planes that are made whatever the culling setting
FrustumPlanes_Always(s, cams) ==
    FrustumsOf(s, cams, {6})

\* update_geometry, "Convert frustum to vector": the arrays of six planes
\* become frustums, the others are left out
FrustumPlanes(s, cams) ==
    IF s.use_frustum_culling /\ cams # <<>>
    THEN FrustumsOf(s, cams, {6})
    ELSE <<>>

\* culling that asks an entry to be inside every supplied frustum
Inside_All(s, frustums, positions) ==
    {o \in Objs :
        /\ \A j \in 1..Len(frustums) : o \in s.view[frustums[j].cam]
        /\ s.distance => \E j \in 1..Len(positions) :
                             o \in s.near[positions[j]]}

\* GeometryPool::update_visibility: the entries that meet at least one
\* supplied frustum and, with distance culling on, are near at least one
\* camera position
Inside(s, frustums, positions) ==
    {o \in Objs :
        /\ \E j \in 1..Len(frustums) : o \in s.view[frustums[j].cam]
        /\ s.distance => \E j \in 1..Len(positions) :
                             o \in s.near[positions[j]]}

\* a pool with one timed sphere in each slot the cameras look at
ScenePool == [i \in Objs |-> NewEntry("SPHERE", i - 1, "PROCESS", MaxDur, FALSE)]

InitCull ==
    /\ pool = ScenePool
    /\ visible_objects = [k \in Kinds |-> 0]
    /\ mesh = EmptyMesh
    /\ is_frame_rendered = FALSE
    /\ in_physics = FALSE
    /\ stats = NoStats
    /\ adds = Len(ScenePool)
    /\ last = Op("none", "kept")
    /\ since_clear = FALSE
    /\ phys_resets = 0
    /\ lock_owner = "none"
    /\ lock_depth = 0
    /\ pc = [t \in Threads |-> "idle"]
    /\ log = <<>>
    /\ scene \in Scenes
    /\ culling = NoCulling
    /\ InitScopes
    /\ InitGenerators

\* update_geometry with debug drawing enabled and freeze off, in a scene
CullTick ==
    /\ culling.state = "none"
    /\ ~in_physics
    /\ \E o \in CollectCameras(scene) :
          IF o.crashed
          THEN /\ culling' = [NoCulling EXCEPT !.state = "crashed"]
               /\ UNCHANGED <<pool, visible_objects, mesh, is_frame_rendered,
                              phys_resets, last>>
          ELSE LET planes == FrustumPlanes(scene, o.cams)
               IN  /\ culling' =
                          [state |-> "done", cams |-> o.cams,
                           frustums |-> planes,
                           previous_camera_position |->
                               IF o.cams # <<>> THEN o.cams[1] ELSE 0,
                           previous_camera_far_plane |-> o.far]
                   /\ RenderFrame(planes # <<>>,
                                  Inside(scene, planes, o.cams), FALSE)
    /\ stats' = NoStats
    /\ UNCHANGED <<in_physics, adds, since_clear, threads, scene, scopes,
                   generators>>

NextCull == CullTick

SpecCull == InitCull /\ [][NextCull]_vars

\* ----------------------------------------------------------- scoped configs
\* DebugDraw3DScopeConfig handles and the per-thread registry of DebugDraw3D.
\* A handle's guard id is its index in handles (create_scoped_configs is
\* their number); thickness and center_brightness are kept in tenths.
MaxScopes == 2     \* handles created in one behaviour
MaxSets == 1       \* setter calls on one handle
MaxCalls == 2      \* explicit _manual_unregister calls on one handle

ThicknessValues == {-1, 3, 1005}
BrightnessValues == {-1, 5, 15}
PlaneSizes == {2}

\* Math::clamp without its upper limit
Clamp_LowerOnly(v, lo, hi) == IF v < lo THEN lo ELSE v

\* Math::clamp(value, min, max)
Clamp(v, lo, hi) == IF v < lo THEN lo ELSE IF v > hi THEN hi ELSE v

\* Data::Data(parent) that starts from the defaults
DataFrom_Defaults(parent) == DefaultData

\* DebugDraw3DScopeConfig::Data::Data(parent)
DataFrom(parent) ==
    [thickness |-> parent.thickness,
     center_brightness |-> parent.center_brightness,
     hd_sphere |-> parent.hd_sphere,
     plane_size |-> parent.plane_size]

\* the innermost scope of thread t, 0 when its stack is empty
Innermost(t) ==
    IF scoped_configs[t] = <<>> THEN 0
    ELSE scoped_configs[t][Len(scoped_configs[t])]

Guards == 1..Len(handles)

\* what an operation on the scoped configs leaves alone
ScopeFrame ==
    /\ stats' = NoStats
    /\ UNCHANGED <<pool, visible_objects, mesh, is_frame_rendered, in_physics,
                   adds, last, since_clear, phys_resets>>
    /\ UNCHANGED <<threads, cameras, generators>>

\* a constructor that does not store the thread id it is given
DebugDraw3DScopeConfig_NoThread(p_thread_id, parent, base) ==
    [thread |-> "main", data |-> DataFrom(parent),
     unregister_action |-> TRUE, alive |-> TRUE, unregs |-> 0, calls |-> 0,
     base |-> base, sets |-> 0]

\* DebugDraw3DScopeConfig::DebugDraw3DScopeConfig(p_thread_id, p_guard_id,
\* parent, p_unreg); the guard id is the handle's place in handles
DebugDraw3DScopeConfig(p_thread_id, parent, base) ==
    [thread |-> p_thread_id, data |-> DataFrom(parent),
     unregister_action |-> TRUE, alive |-> TRUE, unregs |-> 0, calls |-> 0,
     base |-> base, sets |-> 0]

\* DebugDraw3D::new_scoped_config called by thread t: the handle is built
\* from the config the thread resolves now and pushed on the thread's stack
\* (_register_scoped_config), which drops the thread's cache entry. base
\* and sets are history: the values of the enclosing scope at creation,
\* the number of setter calls; calls counts the
\* _manual_unregister calls and unregs the calls of the unregister action.
new_scoped_config(t) ==
    /\ Len(handles) < MaxScopes
    /\ LET g == Len(handles) + 1
           parent == DataOf(scoped_config_for_current_thread(t))
       IN  /\ handles' = Append(handles,
                  DebugDraw3DScopeConfig(t, parent, DataOf(Innermost(t))))
           /\ scoped_configs' =
                  [scoped_configs EXCEPT ![t] = Append(@, g)]
           /\ cached_scoped_configs' =
                  [cached_scoped_configs EXCEPT ![t] = -1]
           /\ UNCHANGED resolved
    /\ ScopeFrame

\* a setter writing to a Data object that the scopes of a thread share
SetData_Shared(g, d) ==
    /\ g \in Guards
    /\ handles[g].alive
    /\ handles[g].sets < MaxSets
    /\ handles' = [h \in Guards |->
                      IF h = g
                      THEN [handles[h] EXCEPT !.data = d, !.sets = @ + 1]
                      ELSE IF handles[h].thread = handles[g].thread
                           THEN [handles[h] EXCEPT !.data = d]
                           ELSE handles[h]]
    /\ UNCHANGED <<scoped_configs, cached_scoped_configs, resolved>>
    /\ ScopeFrame

\* a setter of the handle g stores d as its data
SetData(g, d) ==
    /\ g \in Guards
    /\ handles[g].alive
    /\ handles[g].sets < MaxSets
    /\ handles' = [handles EXCEPT ![g].data = d, ![g].sets = @ + 1]
    /\ UNCHANGED <<scoped_configs, cached_scoped_configs, resolved>>
    /\ ScopeFrame

\* DebugDraw3DScopeConfig::set_thickness
set_thickness(g, value) ==
    SetData(g, [handles[g].data EXCEPT !.thickness = Clamp(value, 0, 1000)])

\* DebugDraw3DScopeConfig::set_center_brightness
set_center_brightness(g, value) ==
    SetData(g, [handles[g].data EXCEPT
                   !.center_brightness = Clamp(value, 0, 10)])

\* DebugDraw3DScopeConfig::set_hd_sphere
set_hd_sphere(g, value) ==
    SetData(g, [handles[g].data EXCEPT !.hd_sphere = value])

\* DebugDraw3DScopeConfig::set_plane_size
set_plane_size(g, value) ==
    SetData(g, [handles[g].data EXCEPT !.plane_size = value])

\* _manual_unregister that leaves unregister_action set
Unregistered_KeepsAction(h) ==
    [h EXCEPT !.unregs = IF h.unregister_action THEN Bump(h.unregs, 2)
                         ELSE h.unregs,
              !.calls = h.calls + 1]

\* DebugDraw3DScopeConfig::_manual_unregister, the handle's side: the
\* action is called if it is set, and is cleared
Unregistered(h) ==
    [h EXCEPT !.unregs = IF h.unregister_action THEN Bump(h.unregs, 2)
                         ELSE h.unregs,
              !.calls = h.calls + 1,
              !.unregister_action = FALSE]

\* DebugDraw3D::_unregister_scoped_config: the scope leaves its thread's
\* stack, and the thread's cache entry is dropped if it was this scope
_unregister_scoped_config(t, g) ==
    /\ scoped_configs' =
          [scoped_configs EXCEPT ![t] = SelectSeq(@, LAMBDA x : x # g)]
    /\ cached_scoped_configs' =
          IF cached_scoped_configs[t] = g
          THEN [cached_scoped_configs EXCEPT ![t] = -1]
          ELSE cached_scoped_configs

\* _manual_unregister of the handle g, which stays alive or not
Unregister(g, alive) ==
    /\ IF handles[g].unregister_action
       THEN _unregister_scoped_config(handles[g].thread, g)
       ELSE UNCHANGED <<scoped_configs, cached_scoped_configs>>
    /\ handles' = [handles EXCEPT
                      ![g] = [Unregistered(handles[g]) EXCEPT !.alive = alive]]

\* DebugDraw3DScopeConfig::_manual_unregister called on the handle g
_manual_unregister(g) ==
    /\ g \in Guards
    /\ handles[g].alive
    /\ handles[g].calls < MaxCalls
    /\ Unregister(g, TRUE)
    /\ UNCHANGED resolved
    /\ ScopeFrame

\* a destructor that does not unregister
DebugDraw3DScopeConfig_destructor_NoUnregister(g) ==
    /\ g \in Guards
    /\ handles[g].alive
    /\ handles' = [handles EXCEPT ![g].alive = FALSE]
    /\ UNCHANGED <<scoped_configs, cached_scoped_configs, resolved>>
    /\ ScopeFrame

\* DebugDraw3DScopeConfig::~DebugDraw3DScopeConfig: the last reference to
\* the handle g goes away, at the end of the caller's scope or earlier
DebugDraw3DScopeConfig_destructor(g) ==
    /\ g \in Guards
    /\ handles[g].alive
    /\ Unregister(g, FALSE)
    /\ UNCHANGED resolved
    /\ ScopeFrame

\* a draw call of thread t
ScopedDraw(t) == DrawBy(t, "SPHERE", 0, 0)

NextScope ==
    \/ \E t \in Threads : new_scoped_config(t)
    \/ \E g \in Guards, v \in ThicknessValues : set_thickness(g, v)
    \/ \E g \in Guards, v \in BrightnessValues : set_center_brightness(g, v)
    \/ \E g \in Guards, v \in BOOLEAN : set_hd_sphere(g, v)
    \/ \E g \in Guards, v \in PlaneSizes : set_plane_size(g, v)
    \/ \E g \in Guards : _manual_unregister(g)
    \/ \E g \in Guards : DebugDraw3DScopeConfig_destructor(g)
    \/ \E t \in Threads : ScopedDraw(t)

SpecScope == Init /\ [][NextScope]_vars

\* ------------------------------------------------------ geometry generators
\* points are numbered; 0 is the zero vector, the value of a Vector3 that
\* was created and never written
MaxPath == 4
MaxPoint == 2
Points == 0..MaxPoint
Paths == SeqsUpTo(Points, MaxPath)

\* PoolVector3Array::resize on an empty array: size elements, each the zero
\* vector; a negative size is refused with an error and the array stays
\* empty
Resized(size) ==
    IF size < 0 THEN [points |-> <<>>, error |-> TRUE]
    ELSE [points |-> [j \in 1..size |-> 0], error |-> FALSE]

\* the loop of CreateLinesFromPath from i on; w and p are indexed from 1
\* here, from 0 in the source
RECURSIVE WriteLines(_, _, _)
WriteLines(w, p, i) ==
    IF i < Len(p) - 1
    THEN WriteLines([w EXCEPT ![i * 2 + 1] = p[i + 1],
                              ![i * 2 + 2] = p[i + 2]], p, i + 1)
    ELSE w

\* GeometryGenerator::CreateLinesFromPath
CreateLinesFromPath(p) ==
    LET res == Resized((Len(p) - 1) * 2)
    IN  [done |-> TRUE, points |-> WriteLines(res.points, p, 1),
         error |-> res.error]

InitPath ==
    /\ InitContainer
    /\ scene = NoScene
    /\ culling = NoCulling
    /\ InitScopes
    /\ path \in Paths
    /\ path_lines = NoLines
    /\ shape = NoShape
    /\ shape_lines = NoShapeLines

\* draw_line_path: the path is turned into a list of lines
CreateLines ==
    /\ ~path_lines.done
    /\ path_lines' = CreateLinesFromPath(path)
    /\ UNCHANGED <<container, cameras, scopes, path, shape, shape_lines>>

NextPath == CreateLines

SpecPath == InitPath /\ [][NextPath]_vars

\* ---------------------------------------------------------- shape generators
\* The generators of the shapes' line lists. An int has 32 bits; a point is
\* a tuple of numbers that names the vertex it is, Zero3 the zero vector of
\* a slot that resize created and nothing wrote.
IntMax == 2147483647
Zero3 == <<0, 0, 0>>

\* what a generator returns
Returned(w) ==
    [done |-> TRUE, points |-> w.points, writes |-> w.writes,
     error |-> FALSE, crashed |-> FALSE]

\* an array resized to size slots after the writes ws, each a pair of the
\* slot written, counted from 0 as in the source, and the point stored:
\* a slot holds the point written to it last, and the zero vector of resize
\* when nothing was written to it; writes counts the writes made to a slot
Stored(size, ws) ==
    LET hits(k) == {n \in 1..Len(ws) : ws[n][1] = k - 1}
    IN  [points |-> [k \in 1..size |->
                        IF hits(k) = {} THEN Zero3
                        ELSE ws[CHOOSE n \in hits(k) :
                                   \A m \in hits(k) : m <= n][2]],
         writes |-> [k \in 1..size |-> Cardinality(hits(k))]]

\* CreateSphereLines, the six writes of one quad: a vertex is named by its
\* meridian (lng0 is j - 1, lng1 is j) and its parallel (lat0 is i - 1,
\* lat1 is i)
SphereQuad(total, i, j) ==
    LET v0 == <<j, i - 1, 0>>
        v1 == <<j, i, 0>>
        v2 == <<j - 1, i, 0>>
        v3 == <<j - 1, i - 1, 0>>
    IN  <<<<total, v0>>, <<total + 1, v1>>, <<total + 2, v2>>,
          <<total + 3, v2>>, <<total + 4, v3>>, <<total + 5, v0>>>>

\* CreateSphereLines, the loops: i from 1 to lats, j from lons down to 1
RECURSIVE SphereLoop(_, _, _, _, _, _)
SphereLoop(ws, total, i, j, lats, lons) ==
    IF i > lats THEN ws
    ELSE IF j < 1 THEN SphereLoop(ws, total, i + 1, lons, lats, lons)
    ELSE SphereLoop(ws \o SphereQuad(total, i, j), total + 6, i, j - 1,
                    lats, lons)

\* lats * lons * 6 does not fit an int: the signed overflow is undefined;
\* resize gets a size that is not the product and the loop writes outside
\* the array, which ends the process or goes on with an array that does not
\* hold the sphere
SphereOverflow ==
    {[done |-> TRUE, points |-> <<>>, writes |-> <<>>, error |-> TRUE,
      crashed |-> c] : c \in BOOLEAN}

\* GeometryGenerator::CreateSphereLines: the outcomes of a call
CreateSphereLines(lats0, lons0) ==
    LET lats == IF lats0 < 2 THEN 2 ELSE lats0
        lons == IF lons0 < 4 THEN 4 ELSE lons0
    IN  IF lats > IntMax \div lons \/ lats * lons > IntMax \div 6
        THEN SphereOverflow
        ELSE {Returned(Stored(lats * lons * 6,
                              SphereLoop(<<>>, 0, 1, lons, lats, lons)))}

MaxLats == 3
MaxLons == 5
BigCount == 20000
SphereCalls ==
    [gen : {"sphere"}, lats : (0 - 1)..MaxLats, lons : (0 - 1)..MaxLons]
      \cup {[gen |-> "sphere", lats |-> BigCount, lons |-> BigCount]}

\* what a call of a shape generator leaves alone
ShapeFrame == UNCHANGED <<container, cameras, scopes, path, path_lines, shape>>

CreateSphere ==
    /\ shape.gen = "sphere"
    /\ ~shape_lines.done
    /\ shape_lines' \in CreateSphereLines(shape.lats, shape.lons)
    /\ ShapeFrame

\* CreateCylinderLines, the loop from i on: a point is named by the step of
\* its angle and its side, 1 for the top (+ d) and -1 for the bottom (- d)
RECURSIVE CylinderLoop(_, _, _, _)
CylinderLoop(points, i, edges, drawEdgeEachNStep) ==
    IF i >= edges THEN points
    ELSE LET ring == points \o <<<<i, 1, 0>>, <<i + 1, 1, 0>>,
                                 <<i, -1, 0>>, <<i + 1, -1, 0>>>>
             edge == IF i % drawEdgeEachNStep = 0
                     THEN <<<<i, 1, 0>>, <<i, -1, 0>>>> ELSE <<>>
         IN  CylinderLoop(ring \o edge, i + 1, edges, drawEdgeEachNStep)

\* GeometryGenerator::CreateCylinderLines: the points, and the number the
\* "reserved ... points for cylinder" warning reports
CreateCylinderLines(edges, drawEdgeEachNStep) ==
    LET points == CylinderLoop(<<>>, 0, edges, drawEdgeEachNStep)
    IN  [done |-> TRUE, points |-> points,
         writes |-> [k \in 1..Len(points) |-> 1],
         error |-> FALSE, crashed |-> FALSE,
         reserved |-> 4 * edges + ((edges \div drawEdgeEachNStep) * 2)]

MaxEdges == 4
MaxStep == 3
CylinderCalls == [gen : {"cylinder"}, edges : 0..MaxEdges, step : 1..MaxStep]

CreateCylinder ==
    /\ shape.gen = "cylinder"
    /\ ~shape_lines.done
    /\ shape_lines' = CreateCylinderLines(shape.edges, shape.step)
    /\ ShapeFrame

\* the vertex tables, in halves so that -0.5 is -1 and 1 is 2; a table's
\* element idx of the source is its element idx + 1 here
CenteredCubeVertices ==
    <<<<-1, -1, -1>>, <<1, -1, -1>>, <<1, -1, 1>>, <<-1, -1, 1>>,
      <<-1, 1, -1>>, <<1, 1, -1>>, <<1, 1, 1>>, <<-1, 1, 1>>>>

CubeVertices ==
    <<<<0, 0, 0>>, <<2, 0, 0>>, <<2, 0, 2>>, <<0, 0, 2>>,
      <<0, 2, 0>>, <<2, 2, 0>>, <<2, 2, 2>>, <<0, 2, 2>>>>

\* an index list that draws the edge 0-1 twice and leaves the edge 3-7 out
CubeIndices_RepeatedEdge ==
    <<0, 1, 1, 2, 2, 3, 3, 0,
      4, 5, 5, 6, 6, 7, 7, 4,
      0, 4, 1, 5, 2, 6, 0, 1>>

CubeIndices ==
    <<0, 1, 1, 2, 2, 3, 3, 0,
      4, 5, 5, 6, 6, 7, 7, 4,
      0, 4, 1, 5, 2, 6, 3, 7>>

CubeWithDiagonalsIndices ==
    <<0, 1, 1, 2, 2, 3, 3, 0,
      4, 5, 5, 6, 6, 7, 7, 4,
      0, 4, 1, 5, 2, 6, 3, 7,
      1, 3, 4, 6,
      1, 4, 3, 6,
      3, 4, 1, 6>>

\* Vector3 * Vector3 and Vector3 + Vector3
Scale(v, size) == <<v[1] * size[1], v[2] * size[2], v[3] * size[3]>>
Plus(v, u) == <<v[1] + u[1], v[2] + u[2], v[3] + u[3]>>

\* Quat::xform for the rotations of the calls: none, or a quarter turn
\* about the y axis
Xform(rotation, v) ==
    IF rotation = "IDENTITY" THEN v ELSE <<v[3], v[2], 0 - v[1]>>

\* CreateCubeLines: get(idx) for idx from 0 to 7
ScaledCube(position, rotation, size, centeredBox) ==
    LET table == IF centeredBox THEN CenteredCubeVertices ELSE CubeVertices
    IN  [k \in 1..8 |-> Plus(Xform(rotation, Scale(table[k], size)), position)]

\* w[i] = corners[indices[i]] for every i of an array resized to the length
\* of indices
IndexedLines(corners, indices) ==
    Returned([points |-> [k \in 1..Len(indices) |-> corners[indices[k] + 1]],
              writes |-> [k \in 1..Len(indices) |-> 1]])

\* GeometryGenerator::CreateCubeLines
CreateCubeLines(position, rotation, size, centeredBox, withDiagonals) ==
    IndexedLines(ScaledCube(position, rotation, size, centeredBox),
                 IF withDiagonals THEN CubeWithDiagonalsIndices
                 ELSE CubeIndices)

CubePositions == {Zero3, <<2, 0, 4>>}
CubeSizes == {<<1, 1, 1>>, <<1, 2, 3>>}
CubeCalls ==
    [gen : {"cube"}, position : CubePositions,
     rotation : {"IDENTITY", "QUARTER_Y"}, size : CubeSizes,
     centeredBox : BOOLEAN, withDiagonals : BOOLEAN]

CreateCube ==
    /\ shape.gen = "cube"
    /\ ~shape_lines.done
    /\ shape_lines' = CreateCubeLines(shape.position, shape.rotation,
                                      shape.size, shape.centeredBox,
                                      shape.withDiagonals)
    /\ ShapeFrame

\* the planes of a camera's frustum in the order of the array: near, far,
\* left, top, right, bottom; a plane is named by its side and its camera
PlaneOrder == <<"near", "far", "left", "top", "right", "bottom">>
FrustumOf(c) == [k \in 1..6 |-> <<PlaneOrder[k], c>>]

\* corners that take the far corners from the near plane as well
FrustumCorners_NearTwice(frustum) ==
    <<{frustum[1], frustum[4], frustum[3]},
      {frustum[1], frustum[4], frustum[5]},
      {frustum[1], frustum[6], frustum[5]},
      {frustum[1], frustum[6], frustum[3]},
      {frustum[1], frustum[4], frustum[3]},
      {frustum[1], frustum[4], frustum[5]},
      {frustum[1], frustum[6], frustum[5]},
      {frustum[1], frustum[6], frustum[3]}>>

\* CreateCameraFrustumLines, cube[]: a corner is named by the three planes
\* that intersect_planes is given; frustum[k] of the source is frustum[k + 1]
FrustumCorners(frustum) ==
    <<{frustum[1], frustum[4], frustum[3]},
      {frustum[1], frustum[4], frustum[5]},
      {frustum[1], frustum[6], frustum[5]},
      {frustum[1], frustum[6], frustum[3]},
      {frustum[2], frustum[4], frustum[3]},
      {frustum[2], frustum[4], frustum[5]},
      {frustum[2], frustum[6], frustum[5]},
      {frustum[2], frustum[6], frustum[3]}>>

\* GeometryGenerator::CreateCameraFrustumLines
CreateCameraFrustumLines(frustum) ==
    IndexedLines(FrustumCorners(frustum), CubeIndices)

FrustumCalls == [gen : {"frustum"}, frustum : {FrustumOf(c) : c \in Cams}]

CreateCameraFrustum ==
    /\ shape.gen = "frustum"
    /\ ~shape_lines.done
    /\ shape_lines' = CreateCameraFrustumLines(shape.frustum)
    /\ ShapeFrame

ShapeCalls == SphereCalls \cup CylinderCalls \cup CubeCalls \cup FrustumCalls

InitShapes ==
    /\ InitContainer
    /\ scene = NoScene
    /\ culling = NoCulling
    /\ InitScopes
    /\ path = <<>>
    /\ path_lines = NoLines
    /\ shape \in ShapeCalls
    /\ shape_lines = NoShapeLines

NextShapes ==
    \/ CreateSphere
    \/ CreateCylinder
    \/ CreateCube
    \/ CreateCameraFrustum

SpecShapes == InitShapes /\ [][NextShapes]_vars

TypeOK ==
    /\ \A i \in Slots(pool) :
          /\ pool[i].st \in {"Active", "Expired", "Reclaimed"}
          /\ pool[i].kind \in Kinds
          /\ pool[i].dur \in (0 - TickDelta)..MaxDur
    /\ adds \in 0..MaxAdds
    /\ is_frame_rendered \in BOOLEAN

\* ----------------------------------------------------------- properties
OneFrame(p, proc) ==
    {i \in Used(p) : p[i].d0 = 0 /\ ~p[i].one /\ p[i].proc = proc}
Timed(p, proc) ==
    {i \in Used(p) : p[i].d0 > 0 /\ ~p[i].one /\ p[i].proc = proc}
LifeTicks(d) == CeilDiv(d, TickDelta)

\* C1: draw calls never duplicate a keyed entry: the pool holds at most one
\* entry for a (kind, key), and exactly one right after a draw call for it.
C1_OneEntryPerKey ==
    /\ \A kind \in Kinds, key \in Keys :
          Cardinality(Keyed(pool, kind, key)) <= 1
    /\ last.op = "draw" =>
          /\ Cardinality(Keyed(pool, last.kind, last.key)) = 1
          /\ \A i \in Keyed(pool, last.kind, last.key) : pool[i].st = "Active"

\* a second draw call for a key found its entry and the pool still holds one
C1_Witness ==
    /\ last.op = "draw" /\ last.note \in {"refreshed", "revived"}
    /\ adds = 2
    /\ Cardinality(Keyed(pool, last.kind, last.key)) = 1

\* C2 as stated: a one-frame entry of the render process is offered to
\* exactly one frame, the next non-frozen enabled one: once it is expired
\* an enabled frame has flattened it, and no second frame does.
C2_Original ==
    \A i \in OneFrame(pool, "PROCESS") :
        /\ pool[i].drawn <= 1
        /\ pool[i].st = "Expired" => pool[i].seen

\* C2 amended: a one-frame entry of the render process is flattened by at
\* most one render tick: by the first non-frozen tick after the call when
\* that tick runs with debug drawing enabled and the entry passes its
\* culling; after that first non-frozen tick it is expired, whatever branch
\* the tick took, and no later tick flattens it.
C2_AtMostOneFrame ==
    \A i \in OneFrame(pool, "PROCESS") :
        /\ pool[i].drawn <= 1
        /\ pool[i].age = 0 =>
              pool[i].st = "Active" /\ pool[i].drawn = 0 /\ ~pool[i].seen
        /\ pool[i].age >= 1 => pool[i].st = "Expired"
        /\ pool[i].seen => (pool[i].drawn = 1 <=> pool[i].vis)
        /\ ~pool[i].seen => pool[i].drawn = 0

\* a one-frame entry was flattened once and is now expired
C2_Witness ==
    \E i \in OneFrame(pool, "PROCESS") :
        pool[i].drawn = 1 /\ pool[i].st = "Expired" /\ last.op = "frame"

\* C3 as stated, for either process type: an entry with duration d > 0 is
\* Active for no more than ceil(d / tick_delta) ticks of its process type
\* and Expired on every later one.
C3_Original ==
    \A proc \in ProcessTypes : \A i \in Timed(pool, proc) :
        pool[i].age >= LifeTicks(pool[i].d0) => pool[i].st = "Expired"

\* C3 amended: an entry with duration d > 0 added from the render process
\* is Active for exactly ceil(d / tick_delta) non-frozen render ticks (the
\* ticks with debug drawing disabled age it too, without flattening it),
\* loses tick_delta in each of them, and is Expired after them.
C3_RenderLifetime ==
    \A i \in Timed(pool, "PROCESS") :
        /\ pool[i].st = "Active" <=> pool[i].age < LifeTicks(pool[i].d0)
        /\ pool[i].age <= LifeTicks(pool[i].d0)
        /\ pool[i].dur = pool[i].d0 - pool[i].age * TickDelta

\* a timed entry of the render process expired after more than one tick
C3_Witness ==
    \E i \in Timed(pool, "PROCESS") :
        /\ pool[i].st = "Expired"
        /\ pool[i].age = LifeTicks(pool[i].d0)
        /\ pool[i].age > 1

\* C4: a draw call for a key whose entry is still Active sets the entry's
\* remaining lifetime to the requested duration and leaves the number of
\* live entries of the kind as it was.
C4_ReAddResets ==
    [][(last'.op = "draw" /\ last'.note = "refreshed") =>
          /\ \A i \in Keyed(pool', last'.kind, last'.key) :
                pool'[i].dur = last'.dur /\ pool'[i].st = "Active"
          /\ Cardinality(LiveOfKind(pool', last'.kind))
                = Cardinality(LiveOfKind(pool, last'.kind))
          /\ Cardinality(Used(pool')) = Cardinality(Used(pool))]_vars

\* an aged entry was given a new, longer lifetime by a second draw call
C4_Witness ==
    /\ last.op = "draw" /\ last.note = "refreshed" /\ last.dur = MaxDur
    /\ \E i \in Keyed(pool, last.kind, last.key) :
          pool[i].dur = MaxDur /\ pool[i].age = 0
    /\ is_frame_rendered

\* the entries of the physics process keep state and remaining lifetime
PhysicsKept(p, q) ==
    \A i \in Used(p) :
        p[i].proc = "PHYSICS_PROCESS" =>
            /\ i \in Slots(q)
            /\ q[i].st = p[i].st
            /\ q[i].dur = p[i].dur

C7_NoLeak == <>[](Used(pool) = {})

\* the last entry of a behaviour's draw calls left the pool in a sweep
C7_Witness ==
    /\ adds = MaxAdds /\ Used(pool) = {} /\ ~since_clear
    /\ last.op \in {"frame", "physics_end"} /\ last.note = "reclaimed"

\* a thread is inside a call that reads or changes the pool
InPoolCall(t) ==
    IF t = "main"
    THEN \/ pc[t] \in RenderSteps \cup {"disabled", "physics_end"}
         \/ pc[t] = "physics_start" /\ is_frame_rendered
    ELSE pc[t] \in WorkerCalls

\* C8 as stated: a thread inside a pool operation holds the data lock, the
\* physics-tick reset and sweep included, so that the pool operations of two
\* threads never overlap.
C8_Original ==
    /\ \A t \in Threads : \A u \in Threads \ {t} :
          ~(InPoolCall(t) /\ InPoolCall(u))

\* C11 as stated: a clear is serialized with every other operation: while a
\* thread is inside clear_3d_objects no other thread is inside a pool
\* operation, so none observes a partially cleared pool.
C11_Original ==
    \A t \in Threads :
        pc[t] = "clear_3d_objects" =>
            \A u \in Threads \ {t} : ~InPoolCall(u)

\* C12: a render tick with freeze on makes no pool call: the pool, the line
\* mesh, the instance buffers, the visible counts and is_frame_rendered are
\* after it what they were before it.
C12_FrozenTickIdle ==
    [][last'.op = "frozen" =>
          UNCHANGED <<pool, visible_objects, mesh, is_frame_rendered>>]_vars

\* a frozen tick ran over a pool with a one-frame entry no tick has touched,
\* after a frame that left a line in the line mesh
C12_Witness ==
    /\ last.op = "frozen"
    /\ mesh["LINE"] # <<>>
    /\ \E i \in OneFrame(pool, "PROCESS") :
          pool[i].st = "Active" /\ pool[i].age = 0

\* C13 as stated: with freeze on the physics ticks go on as with freeze off:
\* the physics tick that follows a render tick, frozen or not, ages the
\* timed entries of the physics process and expires its one-frame entries.
C13_Original ==
    [][(last.op \in {"frame", "frozen"} /\ last'.op = "physics_start") =>
          \A i \in Used(pool) :
              (pool[i].proc = "PHYSICS_PROCESS" /\ pool[i].st = "Active") =>
                  /\ pool'[i].st = ResetEntry(pool[i], TickDelta).st
                  /\ pool'[i].dur = ResetEntry(pool[i], TickDelta).dur]_vars

\* C13 amended: a frozen render tick leaves is_frame_rendered as it was; a
\* physics tick resets the counters of the physics process when the flag is
\* set and clears it, and leaves every entry of the physics process with
\* its state and remaining lifetime when it is not; the physics sweep takes
\* the expired entries of the physics process out whatever the freeze.
C13_FreezeStopsPhysicsAging ==
    [][/\ last'.op = "frozen" => is_frame_rendered' = is_frame_rendered
       /\ last'.op = "physics_start" =>
            /\ ~is_frame_rendered'
            /\ IF is_frame_rendered
               THEN \A i \in Used(pool) :
                      (pool[i].proc = "PHYSICS_PROCESS"
                         /\ pool[i].st = "Active") =>
                          /\ pool'[i].st = ResetEntry(pool[i], TickDelta).st
                          /\ pool'[i].dur = ResetEntry(pool[i], TickDelta).dur
               ELSE PhysicsKept(pool, pool')
       /\ last'.op = "physics_end" =>
            \A i \in Used(pool') :
                ~(pool'[i].proc = "PHYSICS_PROCESS"
                    /\ pool'[i].st = "Expired")]_vars

\* a frozen render tick ran after two physics ticks that left a one-frame
\* entry of the physics process Active
C13_Witness ==
    /\ last.op = "frozen" /\ ~is_frame_rendered
    /\ \E i \in OneFrame(pool, "PHYSICS_PROCESS") :
          pool[i].st = "Active" /\ pool[i].age >= 2 /\ ~pool[i].seen

\* C14: culling is a union over the supplied frustums: with frustums
\* supplied, an entry whose bounds meet one of them and that, with distance
\* culling on, is near one camera position is marked visible and is in its
\* kind's buffer, whatever the other frustums hold.
C14_UnionOfFrustums ==
    (culling.state = "done" /\ culling.frustums # <<>>) =>
        \A o \in Objs : \A j \in 1..Len(culling.frustums) :
            (/\ o \in scene.view[culling.frustums[j].cam]
             /\ scene.distance =>
                   \E k \in 1..Len(culling.cams) :
                       o \in scene.near[culling.cams[k]])
            => (pool[o].vis /\ o \in InBuffers(mesh))

\* two frustums were supplied, and an entry that meets the second and not
\* the first was marked visible
C14_Witness ==
    /\ culling.state = "done" /\ Len(culling.frustums) = 2
    /\ culling.frustums[1] # culling.frustums[2]
    /\ \E o \in Objs :
          /\ o \notin scene.view[culling.frustums[1].cam]
          /\ o \in scene.view[culling.frustums[2].cam]
          /\ pool[o].vis
    /\ \E o \in Objs : ~pool[o].vis

\* C15: when no frustum data is supplied, frustum culling being off or no
\* camera being found, the render tick marks every entry of the pool
\* visible and flattens every Active one.
C15_NoFrustumAllVisible ==
    (culling.state = "done"
       /\ (~scene.use_frustum_culling \/ culling.cams = <<>>)) =>
        /\ culling.frustums = <<>>
        /\ \A o \in Objs : pool[o].vis /\ o \in InBuffers(mesh)

\* frustum culling is off, a camera was found whose frustum holds no entry
\* and whose position is near none, distance culling is on, and every entry
\* is visible
C15_Witness ==
    /\ culling.state = "done" /\ ~scene.use_frustum_culling
    /\ culling.cams # <<>> /\ scene.distance
    /\ \A j \in 1..Len(culling.cams) :
          scene.view[culling.cams[j]] = {} /\ scene.near[culling.cams[j]] = {}
    /\ \A o \in Objs : pool[o].vis

\* C16 as stated: whatever cameras and viewports the scene has, the render
\* tick completes: no camera it uses is a null pointer.
C16_Original == culling.state # "crashed"

\* the pool an enabled render tick flattens: the pool after the visibility
\* sweep and the debug bounds
Flattened(culled, inside, bounds) ==
    LET seen == UpdateVisibility(pool, culled, inside)
    IN  IF bounds THEN DebugBounds(seen) ELSE seen

\* the buffers m and the counts v hold exactly the Active and visible
\* entries of p, each once
ExactlyVisible(m, v, p) ==
    \A k \in Kinds :
        /\ \A a, b \in 1..Len(m[k]) : m[k][a] = m[k][b] => a = b
        /\ {m[k][j] : j \in 1..Len(m[k])}
               = {i \in Slots(p) : p[i].st = "Active" /\ p[i].vis
                                    /\ p[i].kind = k}
        /\ v[k] = Len(m[k])

\* C17: after the flatten of an enabled render tick each kind's buffer
\* holds every Active and visible entry of the kind exactly once and no
\* expired or invisible entry, and the kind's visible count is the size of
\* its buffer.
C17_FlattenExact ==
    [][\A culled \in BOOLEAN, bounds \in BOOLEAN :
         \A inside \in SUBSET Slots(pool) :
            (last'.op = "frame" /\ RenderFrame(culled, inside, bounds))
                => ExactlyVisible(mesh', visible_objects',
                                  Flattened(culled, inside, bounds))]_vars

\* a frame flattened one entry and left an invisible Active entry out
C17_Witness ==
    /\ last.op = "frame"
    /\ \E k \in Kinds : Len(mesh[k]) >= 1
    /\ \E i \in Live(pool) : ~pool[i].vis

\* a frame flattened one entry and left out an entry that was Expired when
\* the buffers were built, which it then reclaimed
FlattenSkipsExpired ==
    /\ last.op = "frame"
    /\ last.note = "reclaimed"
    /\ \E k \in Kinds : Len(mesh[k]) >= 1

\* the handle g was released: explicitly or by its destruction
Released(g) == ~handles[g].alive \/ handles[g].calls > 0

\* the nearest still-active scope of thread t: the youngest of its scopes
\* that was not released, 0 when there is none
Nearest(t) ==
    LET act == {g \in Guards : handles[g].thread = t /\ ~Released(g)}
    IN  IF act = {} THEN 0 ELSE CHOOSE g \in act : \A x \in act : x <= g

\* this step is a draw call of thread t
DrawStep(t) == adds' = adds + 1 /\ resolved'.thread = t

\* C18: a scoped config created inside another scope starts with the
\* thickness, center_brightness, hd_sphere and plane_size of the enclosing
\* scope, and a draw call inside a scope that overrode nothing resolves the
\* values its enclosing scope had when the scope was created.
C18_InheritsEnclosing ==
    [][\A t \in Threads :
          /\ (Len(handles') = Len(handles) + 1
                 /\ handles'[Len(handles')].thread = t /\ Nearest(t) # 0)
               => handles'[Len(handles')].data = handles[Nearest(t)].data
          /\ (DrawStep(t) /\ Nearest(t) # 0 /\ handles[Nearest(t)].sets = 0)
               => resolved'.data = handles[Nearest(t)].base]_vars

\* a draw call inside the inner of two nested scopes, which overrode
\* nothing, resolved the thickness 0.3 the outer scope had set
C18_Witness ==
    /\ Len(handles) = 2
    /\ resolved.thread \in Threads
    /\ scoped_configs[resolved.thread] = <<1, 2>>
    /\ handles[1].data.thickness = 3
    /\ handles[2].sets = 0
    /\ resolved.from = 2
    /\ resolved.data.thickness = 3

\* C19: the unregister action of a handle is called exactly once over all
\* its _manual_unregister calls and its destruction, and every call after
\* the first changes nothing of the registry or of the handle's values.
C19_UnregisterOnce ==
    /\ [](\A g \in Guards :
             handles[g].unregs = (IF Released(g) THEN 1 ELSE 0))
    /\ [][\A g \in Guards :
             (handles'[g].calls > handles[g].calls /\ handles[g].calls > 0)
                => /\ UNCHANGED <<scoped_configs, cached_scoped_configs>>
                   /\ handles'[g].data = handles[g].data
                   /\ handles'[g].unregs = 1]_vars

\* a handle was unregistered twice explicitly and then destroyed, and its
\* unregister action was called once
C19_Witness ==
    \E g \in Guards :
        /\ handles[g].calls = MaxCalls + 1
        /\ ~handles[g].alive
        /\ handles[g].unregs = 1

\* C20: a released scope is not in its thread's stack nor in its thread's
\* cache, and every draw call resolves the nearest scope of its thread that
\* is still active, or the default config when none is left.
C20_ReleasedNeverResolved ==
    /\ [](\A g \in Guards :
             Released(g) =>
                /\ \A i \in 1..Len(scoped_configs[handles[g].thread]) :
                       scoped_configs[handles[g].thread][i] # g
                /\ cached_scoped_configs[handles[g].thread] # g)
    /\ [][\A t \in Threads :
             DrawStep(t) =>
                /\ resolved'.from = Nearest(t)
                /\ resolved'.data = DataOf(Nearest(t))]_vars

\* the inner scope was released and a later draw call resolved the outer
\* scope: it saw the hd_sphere the outer scope set after the inner scope
\* was created, and not the thickness of the inner scope
C20_Witness ==
    /\ Len(handles) = 2
    /\ handles[1].thread = handles[2].thread
    /\ Released(2) /\ ~Released(1)
    /\ handles[2].data.thickness = 3
    /\ ~handles[2].base.hd_sphere
    /\ resolved.from = 1
    /\ resolved.thread = handles[1].thread
    /\ resolved.data.hd_sphere
    /\ resolved.data.thickness = 0
    /\ adds = MaxAdds

\* the values a draw call of thread u would resolve now
ResolvedNow(u) == DataOf(scoped_config_for_current_thread(u))

\* this step creates, modifies or releases a scoped config of a thread
\* other than u, or is a draw call of such a thread
OtherThreadStep(u) ==
    \/ /\ Len(handles') = Len(handles) + 1
       /\ handles'[Len(handles')].thread # u
    \/ \E g \in Guards : handles[g].thread # u /\ handles'[g] # handles[g]
    \/ \E t \in Threads \ {u} : DrawStep(t)

\* C21: creating, modifying or releasing a scoped config of one thread, and
\* the draw calls of that thread, never change the values a draw call of
\* another thread resolves, nor that thread's stack.
C21_PerThread ==
    [][\A u \in Threads :
          OtherThreadStep(u) =>
             /\ ResolvedNow(u)' = ResolvedNow(u)
             /\ scoped_configs'[u] = scoped_configs[u]]_vars

\* the worker thread created, modified and released a scope of its own
\* while the main thread had a scope, and the draw call of the main thread
\* resolved the main thread's values
C21_Witness ==
    /\ Len(handles) = 2
    /\ handles[1].thread = "main" /\ handles[2].thread = "worker"
    /\ handles[2].data.thickness = 3
    /\ Released(2) /\ ~Released(1)
    /\ handles[1].data.hd_sphere
    /\ resolved.thread = "main" /\ resolved.from = 1
    /\ resolved.data.hd_sphere /\ resolved.data.thickness = 0

\* C22 as stated: a path of n >= 2 points gives the 2*(n-1) points of its
\* n-1 segments, output[2i] = path[i] and output[2i+1] = path[i+1] for i in
\* 0..n-2, and a path of 0 or 1 points gives an empty list without error.
C22_Original ==
    path_lines.done =>
        LET n == Len(path)
        IN  IF n >= 2
            THEN /\ Len(path_lines.points) = 2 * (n - 1)
                 /\ \A i \in 0..(n - 2) :
                       /\ path_lines.points[2 * i + 1] = path[i + 1]
                       /\ path_lines.points[2 * i + 2] = path[i + 2]
            ELSE path_lines.points = <<>> /\ ~path_lines.error

\* the one-shot entries of the pool p
OneShots(p) == {i \in Used(p) : p[i].one}

\* the instances and the lines the bounds overlay looks at in the pool p
BoundedInstances(p) ==
    {i \in Used(p) : p[i].kind \in InstanceKinds /\ ~p[i].one
                      /\ p[i].vis /\ p[i].st = "Active"}
BoundedLines(p) ==
    {i \in Used(p) : p[i].kind = "LINE" /\ p[i].vis /\ p[i].st = "Active"}

\* C23: one-shot entries are never merged with an entry of the pool: a
\* frame with the overlay on holds, when it is flattened, one fresh one-shot
\* entry for each add, whatever kind and key the pool already holds; each
\* of them is in the buffers of that frame, and after the frame each is
\* Expired, having been rendered once.
C23_OneShotFresh ==
    /\ [](\A i \in OneShots(pool) :
             pool[i].st = "Expired" /\ pool[i].drawn = 1)
    /\ [][\A culled \in BOOLEAN : \A inside \in SUBSET Slots(pool) :
             (last'.op = "frame" /\ RenderFrame(culled, inside, TRUE))
                => LET swept == UpdateVisibility(pool, culled, inside)
                       fresh == OneShots(pool') \ OneShots(pool)
                   IN  /\ Cardinality(fresh)
                             = Cardinality(BoundedInstances(swept))
                               + Cardinality(BoundedLines(swept))
                       /\ fresh \subseteq InBuffers(mesh')
                       /\ \A i \in Live(swept) :
                             pool'[i].kind = swept[i].kind
                             /\ pool'[i].key = swept[i].key
                             /\ ~pool'[i].one]_vars

\* a frame drew two keyed spheres, one of them with the key 0 of the
\* bounds entries, and one one-shot sphere for each of them
C23_Witness ==
    /\ last.op = "frame"
    /\ Cardinality({i \in OneShots(pool) : pool[i].kind = "SPHERE"
                                            /\ i \in InBuffers(mesh)}) = 2
    /\ \E i \in InBuffers(mesh) :
          pool[i].kind = "SPHERE" /\ pool[i].key = 0 /\ ~pool[i].one

\* the one-shot entries of kind k a step added
FreshOneShots(k) ==
    {i \in OneShots(pool') \ OneShots(pool) : pool'[i].kind = k}

\* this step is an enabled render tick
FrameStep ==
    /\ last'.op = "frame"
    /\ \E culled \in BOOLEAN, bounds \in BOOLEAN :
          \E inside \in SUBSET Slots(pool) :
             RenderFrame(culled, inside, bounds)

AllCameras ==
    \A j \in 1..Len(scene.editor) : scene.editor[j].cam # 0

\* C25 as stated, for the scenes whose viewports all have a camera: every
\* frustum passed to update_visibility has six planes, and the i-th frustum
\* passed is the frustum of the camera whose position is the i-th position
\* passed.
C25_Original ==
    (culling.state = "done" /\ AllCameras) =>
        \A i \in 1..Len(culling.frustums) :
            /\ culling.frustums[i].planes = 6
            /\ culling.frustums[i].cam = culling.cams[i]

\* C26: a render tick with debug drawing disabled and freeze off leaves
\* every kind's visible count at 0 and the line mesh and the instance
\* buffers empty, makes no cull (is_visible stays), no flatten (no entry is
\* drawn) and no expiration sweep (no slot is reclaimed), and leaves
\* is_frame_rendered as it was.
C26_DisabledDrawsNothing ==
    [][last'.op = "disabled" =>
          /\ mesh' = EmptyMesh
          /\ \A k \in Kinds : visible_objects'[k] = 0
          /\ is_frame_rendered' = is_frame_rendered
          /\ Len(pool') = Len(pool)
          /\ \A i \in Slots(pool) :
                /\ pool'[i].vis = pool[i].vis
                /\ pool'[i].drawn = pool[i].drawn
                /\ pool'[i].seen = pool[i].seen
                /\ (pool'[i].st = "Reclaimed") = (pool[i].st = "Reclaimed")]_vars

\* a disabled render tick found two entries, one of them Expired and one
\* never drawn, and left both in the pool with empty buffers and
\* is_frame_rendered unset
C26_Witness ==
    /\ last.op = "disabled"
    /\ ~is_frame_rendered
    /\ mesh = EmptyMesh
    /\ Cardinality(Used(pool)) = 2
    /\ \E i \in Used(pool) : pool[i].st = "Expired"
    /\ \E i \in Live(pool) : pool[i].vis /\ pool[i].age >= 1

\* the thread is inside a call that holds a LOCK_GUARD
Guarded(t) ==
    IF t = "main"
    THEN pc[t] \in RenderSteps \cup
                   {"frozen", "disabled", "set_render_layer_mask",
                    WaitingFor["set_render_layer_mask"]}
    ELSE pc[t] \in WorkerCalls

LockSafe ==
    /\ lock_depth \in 0..2
    /\ lock_depth = 0 <=> lock_owner = "none"
    /\ lock_depth = 2 =>
          lock_owner = "main" /\ pc["main"] = "set_render_layer_mask"
    /\ \A t \in Threads : Guarded(t) <=> lock_owner = t

\* C27: the data lock is reentrant and never deadlocks. update_geometry
\* calls set_render_layer_mask, which takes the lock again, while holding
\* it, and still returns with the lock fully released; a thread that holds
\* the lock always releases it; and while some caller waits for the lock,
\* some caller obtains it.
C27_ReentrantNoDeadlock ==
    /\ []LockSafe
    /\ (pc["main"] = WaitingFor["set_render_layer_mask"])
          ~> (pc["main"] = "idle" /\ lock_owner # "main")
    /\ \A t \in Threads : (lock_owner = t) ~> (lock_owner # t)
    /\ \A t \in Threads : Waiting(t) ~> (lock_owner # "none")

\* update_geometry is inside set_render_layer_mask, holding the lock twice,
\* while the worker thread waits for it
C27_Witness == lock_depth = 2 /\ Waiting("worker")

\* C27 as stated: every caller that requests the lock eventually obtains it
C27_Original ==
    \A t \in Threads : Waiting(t) ~> (lock_owner = t)


\* thickness within [0, 100] and center_brightness within [0, 1], in tenths
InRange(d) == d.thickness \in 0..1000 /\ d.center_brightness \in 0..10

\* the value of lo..hi that a setter has to store for the argument v
Limited(v, lo, hi) ==
    IF v \in lo..hi THEN v ELSE IF v < lo THEN lo ELSE hi

\* C28: the thickness of every scoped config, the default one included,
\* lies in [0, 100] and its center_brightness in [0, 1], however it was
\* created and whatever its setters were given, and so do the values a
\* draw call resolves; set_thickness and set_center_brightness store their
\* argument limited to these ranges.
C28_ClampedRanges ==
    /\ [](/\ InRange(DefaultData)
          /\ InRange(resolved.data)
          /\ \A g \in Guards : InRange(handles[g].data))
    /\ [][\A g \in Guards :
            /\ \A v \in ThicknessValues :
                  set_thickness(g, v) =>
                     handles'[g].data.thickness = Limited(v, 0, 1000)
            /\ \A v \in BrightnessValues :
                  set_center_brightness(g, v) =>
                     handles'[g].data.center_brightness = Limited(v, 0, 10)
         ]_vars

\* a scope whose thickness was set above the range, and a scope created
\* inside it whose center_brightness was set above the range
C28_Witness ==
    \E g \in Guards, h \in Guards :
        /\ g < h
        /\ handles[g].sets = 1 /\ handles[g].data.thickness = 1000
        /\ handles[h].base.thickness = 1000
        /\ handles[h].sets = 1 /\ handles[h].data.center_brightness = 10
        /\ handles[h].data.thickness = 1000


\* this step is a setter call on the handle g
SetterStep(g) ==
    /\ Len(handles') = Len(handles)
    /\ handles'[g].sets = handles[g].sets + 1

\* C29: the values of a scoped config are its own copy, taken when it is
\* created: until one of its own setters is called it keeps the values it
\* was created with, and a setter call on a handle changes the values of no
\* other handle, parent or child, nor those of the default config.
C29_PrivateCopy ==
    /\ [](\A g \in Guards :
             handles[g].sets = 0 => handles[g].data = handles[g].base)
    /\ [][\A g \in Guards :
            SetterStep(g) =>
               /\ \A h \in Guards \ {g} : handles'[h].data = handles[h].data
               /\ DataOf(0)' = DataOf(0)
         ]_vars

\* a scope and a scope created inside it with the default values; then the
\* outer one's thickness and the inner one's center_brightness were set
C29_Witness ==
    \E t \in Threads, g \in Guards, h \in Guards :
        /\ scoped_configs[t] = <<g, h>>
        /\ handles[h].base = DefaultData
        /\ handles[g].sets = 1 /\ handles[h].sets = 1
        /\ handles[g].data.thickness = 1000
        /\ handles[g].data.center_brightness = 0
        /\ handles[h].data.thickness = 0
        /\ handles[h].data.center_brightness = 10


\* C30 as stated, for the scenes whose viewports all have a camera: after
\* an enabled render tick the stored previous camera position is the
\* position of the first camera collected, or the zero vector when none
\* was, and the stored previous far plane is the far distance of that same
\* camera, or 1000 when none was.
C30_Original ==
    (culling.state = "done" /\ AllCameras) =>
        LET first == IF culling.cams # <<>> THEN culling.cams[1] ELSE 0
        IN  /\ culling.previous_camera_position = first
            /\ culling.previous_camera_far_plane = first


\* n is a * b * 6, for a and b above 0, told without making the product
ThreeFold(n, a, b) ==
    n % 6 = 0 /\ (n \div 6) % b = 0 /\ (n \div 6) \div b = a

\* C31 as stated: for all integer inputs the sphere generator returns
\* exactly max(lats, 2) * max(lons, 4) * 6 points, and every slot of the
\* result was written exactly once.
C31_Original ==
    (shape.gen = "sphere" /\ shape_lines.done) =>
        /\ ThreeFold(Len(shape_lines.points),
                     IF shape.lats < 2 THEN 2 ELSE shape.lats,
                     IF shape.lons < 4 THEN 4 ELSE shape.lons)
        /\ \A k \in 1..Len(shape_lines.points) : shape_lines.writes[k] = 1


\* C32 as stated: for edges >= 1 and drawEdgeEachNStep >= 1 the cylinder
\* generator returns exactly the number of points it reports as reserved,
\* 4 * edges + 2 * (edges div drawEdgeEachNStep).
C32_Original ==
    (/\ shape.gen = "cylinder" /\ shape_lines.done
     /\ shape.edges >= 1 /\ shape.step >= 1) =>
        /\ shape_lines.reserved
              = 4 * shape.edges + 2 * (shape.edges \div shape.step)
        /\ Len(shape_lines.points) = shape_lines.reserved


\* the segments of an index list: the pairs of vertex indices it joins
Segments(indices) ==
    [k \in 1..(Len(indices) \div 2) |-> {indices[2 * k - 1], indices[2 * k]}]

\* the coordinates in which two points differ
Differing(u, v) == {c \in 1..3 : u[c] # v[c]}

\* the two vertices of the table lie on a common face and are its diagonal:
\* the faces are named by the coordinate that is constant on them and its
\* value
FaceOf(table, seg) ==
    {<<c, x>> \in (1..3) \X {0, 2} :
        \A a \in seg : table[a + 1][c] = x}

\* C33: the cube line list is exactly the 12 edges of the box: every index
\* pair of CubeIndices joins two of the 8 vertices that differ in exactly
\* one coordinate, no edge is repeated and none is missing;
\* CubeWithDiagonalsIndices is those 12 edges followed by exactly one
\* diagonal for each of the 6 faces; and CreateCubeLines returns 24 points
\* without diagonals and 36 with, the points of these segments.
C33_CubeEdges ==
    LET edges == Segments(CubeIndices)
        all == Segments(CubeWithDiagonalsIndices)
        BoxEdges == {{a, b} : a \in 0..7, b \in 0..7}
        IsEdge(seg, table) ==
            /\ Cardinality(seg) = 2
            /\ \A a \in seg, b \in seg :
                  a # b => Cardinality(Differing(table[a + 1],
                                                 table[b + 1])) = 1
    IN  /\ Len(CubeVertices) = 8 /\ Len(CenteredCubeVertices) = 8
        /\ Len(CubeIndices) = 24
        /\ \A k \in 1..12 : /\ edges[k] \subseteq 0..7
                            /\ IsEdge(edges[k], CubeVertices)
                            /\ IsEdge(edges[k], CenteredCubeVertices)
        /\ Cardinality({edges[k] : k \in 1..12}) = 12
        /\ \A seg \in BoxEdges :
              IsEdge(seg, CubeVertices) => \E k \in 1..12 : edges[k] = seg
        /\ Len(CubeWithDiagonalsIndices) = 36
        /\ SubSeq(CubeWithDiagonalsIndices, 1, 24) = CubeIndices
        /\ \A k \in 13..18 :
              /\ Cardinality(all[k]) = 2
              /\ Cardinality(FaceOf(CubeVertices, all[k])) = 1
        /\ Cardinality(UNION {FaceOf(CubeVertices, all[k]) : k \in 13..18})
              = 6
        /\ (shape.gen = "cube" /\ shape_lines.done) =>
              LET indices == IF shape.withDiagonals
                             THEN CubeWithDiagonalsIndices ELSE CubeIndices
                  scaled == ScaledCube(shape.position, shape.rotation,
                                       shape.size, shape.centeredBox)
                  points == shape_lines.points
              IN  /\ Len(points) = IF shape.withDiagonals THEN 36 ELSE 24
                  /\ \A k \in 1..Len(points) :
                        /\ points[k] = scaled[indices[k] + 1]
                        /\ shape_lines.writes[k] = 1
                  /\ \A k \in 1..12 :
                        Cardinality(Differing(points[2 * k - 1],
                                              points[2 * k])) = 1
                  /\ Cardinality({{points[2 * k - 1], points[2 * k]} :
                                     k \in 1..(Len(points) \div 2)})
                        = Len(points) \div 2

\* a centered, rotated, scaled and moved box was generated with its
\* diagonals
C33_Witness ==
    /\ shape.gen = "cube" /\ shape_lines.done
    /\ shape.centeredBox /\ shape.rotation # "IDENTITY"
    /\ shape.withDiagonals /\ Len(shape_lines.points) = 36
    /\ shape.size # <<1, 1, 1>> /\ shape.position # Zero3


\* the side of a plane of the frustum array
SideOf(plane) == plane[1]

\* C34: the frustum line list has 12 segments over 8 corners; each corner
\* is the intersection of one of near and far, one of top and bottom and
\* one of left and right, all 8 combinations occur, and every segment joins
\* two corners that share exactly two of their three planes.
C34_FrustumEdges ==
    (shape.gen = "frustum" /\ shape_lines.done) =>
        LET points == shape_lines.points
            corners == {points[k] : k \in 1..Len(points)}
            Sides(corner) == {SideOf(plane) : plane \in corner}
        IN  /\ Len(points) = 24
            /\ \A k \in 1..24 : shape_lines.writes[k] = 1
            /\ Cardinality(corners) = 8
            /\ \A corner \in corners :
                  /\ Cardinality(corner) = 3
                  /\ corner \subseteq {shape.frustum[n] : n \in 1..6}
                  /\ Cardinality(Sides(corner) \cap {"near", "far"}) = 1
                  /\ Cardinality(Sides(corner) \cap {"top", "bottom"}) = 1
                  /\ Cardinality(Sides(corner) \cap {"left", "right"}) = 1
            /\ \A nf \in {"near", "far"}, tb \in {"top", "bottom"},
                  lr \in {"left", "right"} :
                  \E corner \in corners : Sides(corner) = {nf, tb, lr}
            /\ \A k \in 1..12 :
                  Cardinality(points[2 * k - 1] \cap points[2 * k]) = 2
            /\ Cardinality({{points[2 * k - 1], points[2 * k]} :
                               k \in 1..12}) = 12

\* the frustum lines of the second camera's planes were generated
C34_Witness ==
    /\ shape.gen = "frustum" /\ shape_lines.done
    /\ Len(shape_lines.points) = 24
    /\ shape.frustum = FrustumOf(MaxCams)
    /\ shape_lines.points[1] = {<<"near", MaxCams>>, <<"top", MaxCams>>,
                                <<"left", MaxCams>>}


IsPrefix(a, b) == Len(a) <= Len(b) /\ a = SubSeq(b, 1, Len(a))

\* C9: the pool operations of a render tick that builds a frame are made in
\* the order update_visibility, fill_lines_data, fill_instance_data,
\* scan_visible_instances, update_expiration, reset_counter, all of them
\* before the tick returns; a statistics snapshot of another thread is never
\* taken while a render tick is between two of them, and its visible counts
\* are those of the buffers the last tick left.
C9_OrderedAndWhole ==
    /\ [](IsPrefix(log, RenderOrder) \/ log = DisabledOrder)
    /\ [](\A j \in 1..Len(RenderOrder) :
            pc["main"] = RenderOrder[j] =>
                log = SubSeq(RenderOrder, 1, j - 1))
    /\ [][(pc["main"] = "reset_counter" /\ pc'["main"] = "idle") =>
            log' = RenderOrder]_vars
    /\ [][(pc["worker"] = "get_render_stats" /\ pc'["worker"] = "idle") =>
            /\ pc["main"] \notin RenderSteps \cup {"frozen", "disabled"}
            /\ \A k \in Kinds : stats'.visible[k] = Len(mesh[k])]_vars

\* a snapshot taken after a complete frame that flattened a one-frame
\* sphere: one visible, none live
C9_Witness ==
    /\ log = RenderOrder /\ pc["main"] = "idle"
    /\ stats # NoStats
    /\ stats.visible["SPHERE"] = 1 /\ stats.live["SPHERE"] = 0

ZeroStats == [live |-> [k \in Kinds |-> 0], visible |-> [k \in Kinds |-> 0]]

====
